---- MODULE Spec2Model ----
(***************************************************************************)
(* State-machine model of modelrunner's trajectory storage                 *)
(* (src/modelrunner/storage/trajectory.py): one storage location that is   *)
(* written by TrajectoryWriter objects and read back by Trajectory         *)
(* objects.  The storage backend (open_storage, StorageGroup, the access   *)
(* modes) is a collaborator whose source is not part of the tree; it is    *)
(* modelled from its contract in spec.md section 6.                        *)
(***************************************************************************)
EXTENDS Integers, Sequences, FiniteSets, TLC

\* ------------------------------------------------------------- bounds
\* longest trajectory that is written
MaxLen == 3
\* largest time stamp (times are modelled as the integers 0..MaxTime)
MaxTime == 2

\* ------------------------------------------------------------- values
\* `time=None`, `attrs=None`, `mode=None` of the Python signatures
None == "None"

\* numpy shapes that occur: () and (2,)
Shapes == {<<>>, <<2>>}

\* numpy arrays (isinstance(data, np.ndarray)): a shape and a content id
Arrays ==
    {[kind |-> "array", shape |-> <<>>, v |-> 1]}
        \cup [kind : {"array"}, shape : {<<2>>}, v : {1, 2}]

\* any other Python value (a dict, a string): opaque, content id 9
Objects == [kind : {"object"}, shape : {<<>>}, v : {9}]

\* the values handed to TrajectoryWriter.append
DataValues == Arrays \cup Objects

\* what a failed call returns
NoVal == [kind |-> "none", shape |-> <<>>, v |-> 0]

Times == 0..MaxTime

\* attrs argument of TrajectoryWriter: None or a dict {"user": u}
UserAttrs == {None, "u1"}

\* mode argument of TrajectoryWriter
WriterModes == {None, "full", "truncate", "append"}

VARIABLES
    fileExists,   \* the storage (file) exists
    groupExists,  \* the group `loc` exists in the storage
    hasData,      \* "data" in group
    hasTime,      \* "time" in group
    dataMeta,     \* item shape and dtype of the dynamic array "data"
    dataArr,      \* content of the dynamic array "data"
    timeArr,      \* content of the dynamic array "time"
    attrs,        \* attribute map of the group
    wState,       \* writer object: "none", "open", "closed"
    wItemType,    \* TrajectoryWriter._item_type ("unset" while not assigned)
    rState,       \* reader object: "none", "open", "closed"
    rItemType,    \* Trajectory._item_type
    rTimes,       \* Trajectory.times
    rAttrs,       \* Trajectory.attrs
    itState,      \* generator of Trajectory.__iter__: "none", "running", "done"
    itPos,        \* loop variable i of the generator
    yielded,      \* items the current generator has yielded
    itRestarted,  \* a generator was created after an earlier one on this reader
    storage,      \* handle that the latest constructor got from open_storage:
                  \* "none" (it opened none), "open", "closed"
    scope,        \* with-block around the writer: "none", "body", "raised"
    last,         \* outcome of the latest call
    log,          \* successful appends <<data, time>> since the trajectory was created
    obj,          \* the state object (modelrunner.state) in hand
    elem,         \* the zarr element that holds a written state
    res,          \* outcome of the latest call on the state classes
    hidden,       \* attribute `hidden` of every declared Parameter object
    pres,         \* outcome of the latest call on the Parameterized classes
    fs,           \* the output files that exist
    logs,         \* the folder `log_folder` exists
    jres,         \* outcome of the latest call of submit_job or submit_jobs
    traj,         \* the zarr element prepared for the trajectory of a state
    snaps,        \* the states appended to it by the calls that returned
    tres          \* outcome of the latest call on the trajectory of a state

storeVars == <<fileExists, groupExists, hasData, hasTime, dataMeta, dataArr, timeArr, attrs>>
writerVars == <<wState, wItemType>>
readerVars == <<rState, rItemType, rTimes, rAttrs>>
iterVars == <<itState, itPos, yielded, itRestarted>>
trajVars == <<storeVars, writerVars, readerVars, iterVars, storage, scope, last, log>>
codecVars == <<obj, elem, res>>
paramVars == <<hidden, pres>>
jobVars == <<fs, logs, jres>>
snapVars == <<traj, snaps, tres>>
\* what the operations of one source file leave alone
notTrajVars == <<codecVars, paramVars, jobVars, snapVars>>
notCodecVars == <<trajVars, paramVars, jobVars, snapVars>>
notParamVars == <<trajVars, codecVars, jobVars, snapVars>>
notJobVars == <<trajVars, codecVars, paramVars, snapVars>>
notSnapVars == <<trajVars, codecVars, paramVars, jobVars>>
vars == <<trajVars, codecVars, paramVars, jobVars, snapVars>>

NoMeta == [dtype |-> "none", shape |-> <<>>]
NoAttrs == [item_type |-> None, user |-> None]

\* the record kept of the latest call: the operation, whether it returned, the
\* exception it raised, its mode argument, its integer argument (a time or an
\* index, -1 for an omitted time), its data argument and what it returned
Outcome(op, ok, err, mode, idx, data, val) ==
    [op |-> op, ok |-> ok, err |-> err, mode |-> mode, idx |-> idx,
     data |-> data, val |-> val]

Last(s) == s[Len(s)]

\* the time argument of append: a time, or -1 for `time=None`
TimeArgs == Times \cup {-1}

\* ----------------------------------------------------- storage backend
\* AccessMode.insert: the mode may create new groups and arrays
Insert(mode) == mode \in {"full", "truncate", "append"}

\* AccessMode.dynamic_append: the mode may extend what is already stored
DynamicAppend(mode) == mode \in {"truncate", "append"}

\* open_storage(storage, mode) raises: "read" and "append" open an existing
\* storage and fail when there is none
OpenStorageFails(mode, exists) == mode \in {"read", "append"} /\ ~exists

\* open_storage(storage, mode="truncate") destroys what the storage holds
Truncates(mode) == mode = "truncate"

\* extend_dynamic_array(name, value) accepts a value of the array's item shape
\* and dtype; anything else is a shape mismatch
ExtendAccepts(meta, value) ==
    /\ meta.dtype = (IF value.kind = "array" THEN "num" ELSE "object")
    /\ meta.shape = value.shape

\* read_array(name, index=i) for a valid 0-based i
ReadArray(arr, i) == arr[i + 1]

\* ------------------------------------------------------ TrajectoryWriter
\* `"times" in self._trajectory or "data" in self._trajectory`: the writer
\* names its time array "time", so no "times" item ever exists and the test
\* is decided by "data"
ContainsData(data_in) == FALSE \/ data_in

\* variant: the test consults the flag for creating items
RefuseExisting_InsertFlag(mode, data_in) == ContainsData(data_in) /\ ~Insert(mode)

\* the constructor refuses to write into existing data
RefuseExisting(mode, data_in) == ContainsData(data_in) /\ ~DynamicAppend(mode)

\* variant: the default mode opens the storage for extension
EffectiveMode_Append(mode) == IF mode = None THEN "append" ELSE mode

\* mode=None stands for "full" once the path is known not to exist
EffectiveMode(mode) == IF mode = None THEN "full" ELSE mode

\* write_attrs(attrs={"user": u}) merges the dict into the attribute map
MergeAttrs(a, ua) == IF ua = None THEN a ELSE [a EXCEPT !.user = ua]

\* TrajectoryWriter.__init__(storage, attrs=ua, mode=mode).  The storage handle
\* is owned by one writer or reader at a time (spec.md section 5), so a writer
\* is constructed while no other writer or reader is open.  The attrs carry a
\* user key; item_type is reserved for the trajectory itself.
WriterInit(mode, ua) ==
    /\ wState # "open"
    /\ rState # "open"
    /\ LET m == EffectiveMode(mode)
           wipe == Truncates(m)
           data_in == hasData /\ ~wipe
           attrs0 == IF wipe THEN NoAttrs ELSE attrs
       IN
       IF mode = None /\ fileExists
       THEN /\ last' = Outcome("TrajectoryWriter", FALSE, "RuntimeError", mode, 0, NoVal, NoVal)
            /\ storage' = "none"
            /\ UNCHANGED <<storeVars, writerVars, log>>
       ELSE IF OpenStorageFails(m, fileExists)
       THEN /\ last' = Outcome("TrajectoryWriter", FALSE, "OSError", mode, 0, NoVal, NoVal)
            /\ storage' = "none"
            /\ UNCHANGED <<storeVars, writerVars, log>>
       ELSE /\ fileExists' = TRUE
            /\ storage' = "open"
            /\ groupExists' = ((groupExists /\ ~wipe) \/ Insert(m))
            /\ hasData' = data_in
            /\ hasTime' = (hasTime /\ ~wipe)
            /\ dataMeta' = IF wipe THEN NoMeta ELSE dataMeta
            /\ dataArr' = IF wipe THEN <<>> ELSE dataArr
            /\ timeArr' = IF wipe THEN <<>> ELSE timeArr
            /\ log' = IF wipe THEN <<>> ELSE log
            /\ IF RefuseExisting(m, data_in)
               THEN /\ attrs' = attrs0
                    /\ last' = Outcome("TrajectoryWriter", FALSE, "IOError", mode, 0, NoVal, NoVal)
                    /\ UNCHANGED writerVars
               ELSE /\ attrs' = MergeAttrs(attrs0, ua)
                    /\ wState' = "open"
                    /\ wItemType' = IF ContainsData(data_in) THEN attrs0.item_type ELSE "unset"
                    /\ last' = Outcome("TrajectoryWriter", TRUE, "", mode, 0, NoVal, NoVal)
    /\ UNCHANGED <<readerVars, iterVars, scope, notTrajVars>>

\* variant: the two branches are swapped
ItemTypeOf_Swapped(data) == IF data.kind = "array" THEN "object" ELSE "array"

\* `isinstance(data, np.ndarray)` decides the item type of a new trajectory
ItemTypeOf(data) == IF data.kind = "array" THEN "array" ELSE "object"

\* dtype and shape of the dynamic array "data" of a new trajectory
NewMeta(data) ==
    IF data.kind = "array"
    THEN [dtype |-> "num", shape |-> data.shape]
    ELSE [dtype |-> "object", shape |-> <<>>]

\* variant: the increment by one is forgotten
AutoTime_NoIncrement(first, times) == IF first THEN 0 ELSE Last(times)

\* variant: every omitted time counts from zero again
AutoTime_Restart(first, times) == 0

\* the time of an append whose `time` is omitted
AutoTime(first, times) == IF first THEN 0 ELSE Last(times) + 1

\* `arr = np.empty((), dtype=object); arr[...] = data`: numpy broadcasts an
\* ndarray into the 0-dimensional target, which works only for an ndarray of
\* a single element and then stores that element, not the ndarray
WrapFails(data) ==
    data.kind = "array" /\ \E k \in 1..Len(data.shape) : data.shape[k] # 1

\* variant: the wrapper is created and stored without the assignment
WrapObject_Unassigned(data) == [kind |-> "object", shape |-> <<>>, v |-> 0]

WrapObject(data) == [kind |-> "object", shape |-> <<>>, v |-> data.v]

\* variant: a refused value is answered by rolling the trajectory back by
\* one snapshot
ExtendTrajectory_Rollback(itype, meta, data, t, darr, tarr) ==
    LET failed(e) == [ok |-> FALSE, err |-> e,
                      data |-> SubSeq(darr, 1, Len(darr) - 1),
                      time |-> SubSeq(tarr, 1, Len(tarr) - 1)]
        done(x) == [ok |-> TRUE, err |-> "", data |-> Append(darr, x),
                    time |-> Append(tarr, t)]
    IN
    IF itype = "array"
    THEN IF ExtendAccepts(meta, data) THEN done(data) ELSE failed("ValueError")
    ELSE IF itype = "object"
    THEN IF WrapFails(data) \/ ~ExtendAccepts(meta, WrapObject(data))
         THEN failed("ValueError")
         ELSE done(WrapObject(data))
    ELSE failed("NotImplementedError")

\* variant: the snapshot is stored without its time
ExtendTrajectory_DataOnly(itype, meta, data, t, darr, tarr) ==
    LET failed(e) == [ok |-> FALSE, err |-> e, data |-> darr, time |-> tarr]
        done(x) == [ok |-> TRUE, err |-> "", data |-> Append(darr, x),
                    time |-> tarr]
    IN
    IF itype = "array"
    THEN IF ExtendAccepts(meta, data) THEN done(data) ELSE failed("ValueError")
    ELSE IF itype = "object"
    THEN IF WrapFails(data) \/ ~ExtendAccepts(meta, WrapObject(data))
         THEN failed("ValueError")
         ELSE done(WrapObject(data))
    ELSE failed("NotImplementedError")

\* the rest of append once the item type is known: extend "data" by the value
\* (an "object" item wrapped first), then "time" by the time; what is raised
\* and what the two arrays hold afterwards
ExtendTrajectory(itype, meta, data, t, darr, tarr) ==
    LET failed(e) == [ok |-> FALSE, err |-> e, data |-> darr, time |-> tarr]
        done(x) == [ok |-> TRUE, err |-> "", data |-> Append(darr, x),
                    time |-> Append(tarr, t)]
    IN
    IF itype = "array"
    THEN IF ExtendAccepts(meta, data) THEN done(data) ELSE failed("ValueError")
    ELSE IF itype = "object"
    THEN IF WrapFails(data) \/ ~ExtendAccepts(meta, WrapObject(data))
         THEN failed("ValueError")
         ELSE done(WrapObject(data))
    ELSE failed("NotImplementedError")

\* the body of `with TrajectoryWriter(...) as w:` is a sequence of calls on w
\* that catches nothing: a call that raises ends the body
BodyAfter(ok) == IF scope = "body" /\ ~ok THEN "raised" ELSE scope

\* TrajectoryWriter.append(data, time); time = -1 stands for time=None.  The
\* guards on MaxLen and MaxTime bound the model, not the program.
append(data, time) ==
    /\ wState = "open"
    /\ scope # "raised"
    /\ Len(dataArr) < MaxLen
    /\ LET first == ~hasData
           itype == IF first THEN ItemTypeOf(data) ELSE wItemType
           meta == IF first THEN NewMeta(data) ELSE dataMeta
           omitted == time < 0
           \* read_array("time", index=-1) of an empty array
           noLast == ~first /\ omitted /\ timeArr = <<>>
           t == IF ~omitted THEN time
                ELSE IF noLast THEN 0 ELSE AutoTime(first, timeArr)
           r == ExtendTrajectory(itype, meta, data, t, dataArr, timeArr)
       IN
       /\ t <= MaxTime
       /\ IF noLast
          THEN /\ last' = Outcome("append", FALSE, "IndexError", None, time, data, NoVal)
               /\ scope' = BodyAfter(FALSE)
               /\ UNCHANGED <<storeVars, writerVars, log>>
          ELSE /\ hasData' = TRUE
               /\ hasTime' = TRUE
               /\ dataMeta' = meta
               /\ attrs' = IF first THEN [attrs EXCEPT !.item_type = itype] ELSE attrs
               /\ wItemType' = itype
               /\ dataArr' = r.data
               /\ timeArr' = r.time
               /\ log' = IF r.ok THEN Append(log, <<data, t>>) ELSE log
               /\ last' = Outcome("append", r.ok, r.err, None, time, data, NoVal)
               /\ scope' = BodyAfter(r.ok)
               /\ UNCHANGED <<fileExists, groupExists, wState>>
    /\ UNCHANGED <<readerVars, iterVars, storage, notTrajVars>>

\* TrajectoryWriter.close(), called by the owner of a writer that is not
\* managed by a with-block; the closed writer is not used again and its
\* fields are dropped
WriterClose ==
    /\ wState = "open"
    /\ scope = "none"
    /\ wState' = "closed"
    /\ wItemType' = "unset"
    /\ storage' = "closed"
    /\ last' = Outcome("close", TRUE, "", None, 0, NoVal, NoVal)
    /\ UNCHANGED <<storeVars, readerVars, iterVars, scope, log, notTrajVars>>

\* TrajectoryWriter.__enter__ of `with TrajectoryWriter(...) as w:`; the
\* with statement enters the writer it has just constructed
WriterEnter ==
    /\ wState = "open"
    /\ scope = "none"
    /\ last.op = "TrajectoryWriter"
    /\ scope' = "body"
    /\ last' = Outcome("enter", TRUE, "", None, 0, NoVal, NoVal)
    /\ UNCHANGED <<storeVars, writerVars, readerVars, iterVars, storage, log, notTrajVars>>

\* the exception the with statement hands to __exit__: the one that ended the
\* body, None when the body ran to its end
BodyException == IF scope = "raised" THEN last.err ELSE None

\* the with statement re-raises the body's exception unless __exit__
\* returned a true value
Reraised(exc, returned) == exc # None /\ returned # "True"

\* variant: the handle is closed only after a body that ran to its end, and
\* the exception of the body is swallowed
WriterExit_CleanOnly ==
    /\ scope # "none"
    /\ LET exc == BodyException IN
       /\ wState' = "closed"
       /\ wItemType' = "unset"
       /\ storage' = IF exc = None THEN "closed" ELSE storage
       /\ scope' = "none"
       /\ last' = Outcome("with", TRUE, "", None, 0, NoVal, NoVal)
    /\ UNCHANGED <<storeVars, readerVars, iterVars, log, notTrajVars>>

\* the end of the with-block: TrajectoryWriter.__exit__(exc_type, exc_val,
\* exc_tb) calls close() and returns None, whatever the body did
WriterExit ==
    /\ scope # "none"
    /\ LET exc == BodyException
           returned == None
       IN
       /\ wState' = "closed"
       /\ wItemType' = "unset"
       /\ storage' = "closed"
       /\ scope' = "none"
       /\ last' = IF Reraised(exc, returned)
                  THEN Outcome("with", FALSE, exc, None, 0, NoVal, NoVal)
                  ELSE Outcome("with", TRUE, "", None, 0, NoVal, NoVal)
    /\ UNCHANGED <<storeVars, readerVars, iterVars, log, notTrajVars>>

\* ------------------------------------------------------------ Trajectory
\* variant: equal consecutive times count as a violation too
Decreases_Strict(times) ==
    \E k \in 1..(Len(times) - 1) : times[k + 1] - times[k] <= 0

\* `np.any(np.diff(self.times) < 0)`
Decreases(times) == \E k \in 1..(Len(times) - 1) : times[k + 1] - times[k] < 0

\* Trajectory.__init__(storage), constructed while no writer is open
TrajectoryInit ==
    /\ wState # "open"
    /\ IF OpenStorageFails("read", fileExists)
       THEN /\ last' = Outcome("Trajectory", FALSE, "OSError", "read", 0, NoVal, NoVal)
            /\ storage' = "none"
            /\ UNCHANGED <<readerVars, iterVars>>
       ELSE IF attrs.item_type = None
       THEN /\ last' = Outcome("Trajectory", FALSE, "KeyError", "read", 0, NoVal, NoVal)
            /\ storage' = "open"
            /\ UNCHANGED <<readerVars, iterVars>>
       ELSE IF Decreases(timeArr)
       THEN /\ last' = Outcome("Trajectory", FALSE, "ValueError", "read", 0, NoVal, NoVal)
            /\ storage' = "open"
            /\ UNCHANGED <<readerVars, iterVars>>
       ELSE /\ rState' = "open"
            /\ rItemType' = attrs.item_type
            /\ rTimes' = timeArr
            /\ rAttrs' = attrs
            /\ itState' = "none"
            /\ itPos' = 0
            /\ yielded' = <<>>
            /\ itRestarted' = FALSE
            /\ storage' = "open"
            /\ last' = Outcome("Trajectory", TRUE, "", "read", 0, NoVal, NoVal)
    /\ UNCHANGED <<storeVars, writerVars, scope, log, notTrajVars>>

\* Trajectory.close(); the closed reader and its generators are not used again
\* and their fields are dropped
TrajectoryClose ==
    /\ rState = "open"
    /\ rState' = "closed"
    /\ rItemType' = "unset"
    /\ rTimes' = <<>>
    /\ rAttrs' = NoAttrs
    /\ itState' = "none"
    /\ itPos' = 0
    /\ yielded' = <<>>
    /\ itRestarted' = FALSE
    /\ storage' = "closed"
    /\ last' = Outcome("close", TRUE, "", None, 0, NoVal, NoVal)
    /\ UNCHANGED <<storeVars, writerVars, scope, log, notTrajVars>>

\* Trajectory.__len__
TrajectoryLen == Len(rTimes)

\* variant: a negative index is mirrored instead of wrapped
NormIndex_Mirrored(t_index, n) == IF t_index < 0 THEN 0 - t_index ELSE t_index

\* `if t_index < 0: t_index += len(self)`
NormIndex(t_index, n) == IF t_index < 0 THEN t_index + n ELSE t_index

\* `0 <= t_index < len(self)`
InRange(t_index, n) == 0 <= t_index /\ t_index < n

\* Trajectory._get_item(t_index): what the call raises or returns
GetItem(t_index) ==
    LET i == NormIndex(t_index, TrajectoryLen) IN
    IF ~InRange(i, TrajectoryLen)
    THEN [ok |-> FALSE, err |-> "IndexError", val |-> NoVal]
    ELSE IF rItemType \in {"array", "object"}
    THEN [ok |-> TRUE, err |-> "", val |-> ReadArray(dataArr, i)]
    ELSE [ok |-> FALSE, err |-> "NotImplementedError", val |-> NoVal]

\* Trajectory.__getitem__(key) for an integer key
GetItemAction(key) ==
    /\ rState = "open"
    /\ LET r == GetItem(key) IN
       last' = Outcome("item_at", r.ok, r.err, None, key, NoVal, r.val)
    /\ UNCHANGED <<storeVars, writerVars, readerVars, iterVars, storage, scope, log, notTrajVars>>

\* variant: the reader keeps one position, so a new iteration resumes
\* where the previous one stopped
IterStart_Resume ==
    /\ rState = "open"
    /\ itState' = "running"
    /\ yielded' = <<>>
    /\ itRestarted' = (itState # "none")
    /\ last' = Outcome("iter", TRUE, "", None, 0, NoVal, NoVal)
    /\ UNCHANGED <<storeVars, writerVars, readerVars, itPos, storage, scope, log, notTrajVars>>

\* iter(trajectory): a new generator of Trajectory.__iter__
IterStart ==
    /\ rState = "open"
    /\ itState' = "running"
    /\ itPos' = 0
    /\ yielded' = <<>>
    /\ itRestarted' = (itState # "none")
    /\ last' = Outcome("iter", TRUE, "", None, 0, NoVal, NoVal)
    /\ UNCHANGED <<storeVars, writerVars, readerVars, storage, scope, log, notTrajVars>>

\* next(generator): one round of `for i in range(len(self)): yield self[i]`
IterNext ==
    /\ rState = "open"
    /\ itState = "running"
    /\ IF itPos < TrajectoryLen
       THEN LET r == GetItem(itPos) IN
            /\ yielded' = IF r.ok THEN Append(yielded, r.val) ELSE yielded
            /\ itPos' = itPos + 1
            /\ itState' = IF r.ok THEN "running" ELSE "done"
            /\ last' = Outcome("next", r.ok, r.err, None, itPos, NoVal, r.val)
       ELSE /\ itState' = "done"
            /\ last' = Outcome("next", FALSE, "StopIteration", None, itPos, NoVal, NoVal)
            /\ UNCHANGED <<itPos, yielded>>
    /\ UNCHANGED <<storeVars, writerVars, readerVars, itRestarted, storage, scope, log, notTrajVars>>

\* ------------------------------------------------- modelrunner.state values
\* A Python value: its class, its content and, for an ArrayCollectionState,
\* the tuple `labels`
Py(kind, val, labels) == [kind |-> kind, val |-> val, labels |-> labels]

PyNone == Py("NoneType", <<>>, <<>>)
PyStr(s) == Py("str", s, <<>>)
\* a one-dimensional numpy array of numbers
NdArray(v) == Py("ndarray", v, <<>>)
PyTuple(items) == Py("tuple", items, <<>>)
PyList(items) == Py("list", items, <<>>)
\* a dict in insertion order: a sequence of <<key, value>>
PyDict(pairs) == Py("dict", pairs, <<>>)

\* dict.keys() in order, dict[key], `key in dict`
DictKeys(d) == [i \in 1..Len(d.val) |-> d.val[i][1]]
DictKeySet(d) == {d.val[i][1] : i \in 1..Len(d.val)}
DictGet(d, key) == d.val[CHOOSE i \in 1..Len(d.val) : d.val[i][1] = key][2]

\* StateBase._state_classes as __init_subclass__ fills it: the four variants
Registry == {"ObjectState", "ArrayState", "ArrayCollectionState", "DictState"}

IsState(x) == x.kind \in Registry

\* StateBase._format_version
FormatVersion == 1

\* what a call returns, or the exception it raises
Ok(v) == [ok |-> TRUE, err |-> "", val |-> v, warned |-> {}]
Fail(e) == [ok |-> FALSE, err |-> e, val |-> PyNone, warned |-> {}]

\* ObjectState.__init__(data), ArrayState.__init__(data)
ObjectState(data) == Py("ObjectState", data, <<>>)
ArrayState(data) == Py("ArrayState", data, <<>>)

\* `tuple(str(i) for i in range(len(self.data)))`
AutoLabels(n) == [i \in 1..n |-> ToString(i - 1)]

\* variant: the labels are only counted
LabelsValid_CountOnly(data, labels) == Len(data) = Len(labels)

\* `len(self.data) == len(labels) == len(set(labels))`
LabelsValid(data, labels) ==
    /\ Len(data) = Len(labels)
    /\ Len(labels) = Cardinality({labels[i] : i \in 1..Len(labels)})

\* ArrayCollectionState.__init__(data, labels=labels); data is None or a
\* sequence of arrays, labels is None or a sequence of strings
ArrayCollectionState(data, labels) ==
    LET d == IF data = PyNone THEN <<>> ELSE data.val IN
    IF labels = PyNone
    THEN Ok(Py("ArrayCollectionState", PyTuple(d), AutoLabels(Len(d))))
    ELSE IF ~LabelsValid(d, labels.val)
    THEN Fail("AssertionError")
    ELSE Ok(Py("ArrayCollectionState", PyTuple(d), labels.val))

\* DictState.__init__(data): None, a dict, or a sequence whose items get the
\* keys "0", "1", ...
DictState(data) ==
    IF data = PyNone THEN Py("DictState", PyDict(<<>>), <<>>)
    ELSE IF data.kind # "dict"
    THEN Py("DictState",
            PyDict([i \in 1..Len(data.val) |-> <<ToString(i - 1), data.val[i]>>]),
            <<>>)
    ELSE Py("DictState", data, <<>>)

\* An attribute dict: the keys it has and their values (a value that is not
\* present is the default of the record and is never read)
Attrs(present, cls, version, labels, keys) ==
    [present |-> present, cls |-> cls, version |-> version,
     labels |-> labels, keys |-> keys]

\* the property `attributes` of a state: {} for ObjectState and ArrayState,
\* {"labels": self.labels} and {"__keys__": list(self.data.keys())}
Attributes(s) ==
    IF s.kind = "ArrayCollectionState"
    THEN Attrs({"labels"}, "", 0, PyTuple(s.labels), PyNone)
    ELSE IF s.kind = "DictState"
    THEN Attrs({"__keys__"}, "", 0, PyNone, PyList(DictKeys(s.val)))
    ELSE Attrs({}, "", 0, PyNone, PyNone)

\* StateBase._attributes_store: attributes plus __class__ and __version__
AttributesStore(s) ==
    [Attributes(s) EXCEPT !.present = @ \cup {"__class__", "__version__"},
                          !.cls = s.kind,
                          !.version = FormatVersion]

\* StateBase._data_store
DataStore(s) == s.val

\* ------------------------------------------------------------ equality
\* _equals(left, right)
RECURSIVE Equals(_, _)
Equals(left, right) ==
    IF left.kind # right.kind THEN FALSE
    ELSE IF left.kind = "str" THEN left.val = right.val
    ELSE IF left.kind = "ndarray" THEN left.val = right.val
    ELSE IF left.kind = "dict"
    THEN /\ DictKeySet(left) = DictKeySet(right)
         /\ \A key \in DictKeySet(left) :
                Equals(DictGet(left, key), DictGet(right, key))
    ELSE IF IsState(left)
    THEN /\ AttributesStore(left) = AttributesStore(right)
         /\ Equals(DataStore(left), DataStore(right))
    ELSE IF left.kind \in {"tuple", "list"}
    THEN /\ Len(left.val) = Len(right.val)
         /\ \A i \in 1..Len(left.val) : Equals(left.val[i], right.val[i])
    ELSE left.val = right.val

\* len(x); the strings of the model are single characters
PyLen(x) == IF x.kind = "str" THEN 1 ELSE Len(x.val)

\* the items that iterating x yields: the items of a tuple or list, the
\* numbers of an array, the keys of a dict, the character of a string, the
\* arrays of an ArrayCollectionState (through its __getitem__)
PyIter(x) ==
    IF x.kind = "ndarray" THEN [i \in 1..Len(x.val) |-> Py("number", <<x.val[i]>>, <<>>)]
    ELSE IF x.kind = "dict" THEN [i \in 1..Len(x.val) |-> PyStr(x.val[i][1])]
    ELSE IF x.kind = "str" THEN <<x>>
    ELSE IF x.kind = "ArrayCollectionState" THEN x.val.val
    ELSE x.val

\* np.array_equal(a, b) for a one-dimensional array a: b has the same shape
\* and the same elements
ArrayEqual(a, b) == a.kind = "ndarray" /\ b.kind = "ndarray" /\ a.val = b.val

\* ArrayCollectionState.__eq__(self, other)
ArrayCollectionEq(self, other) ==
    /\ PyLen(self.val) = PyLen(other.val)
    /\ \A i \in 1..PyLen(self.val) :
           ArrayEqual(self.val.val[i], PyIter(other.val)[i])

\* self == other: StateBase.__eq__ unless the class of self overrides it
StateEq(self, other) ==
    IF self.kind = "ArrayCollectionState"
    THEN ArrayCollectionEq(self, other)
    ELSE Equals(self, other)

\* ---------------------------------------------------------- from_state
AttrHas(a, key) == key \in a.present

\* attributes.get("__version__", 0)
VersionOf(a) == IF AttrHas(a, "__version__") THEN a.version ELSE 0

\* `cls() if data is None else cls(data)` for ObjectState and ArrayState,
\* whose __init__ takes data=None
Construct(cls, data) == Py(cls, data, <<>>)

\* StateBase.from_state as ObjectState and ArrayState inherit it (cls is not
\* the base).  The message of the ValueError reads attributes['class'], a key
\* that no attribute dict has, so the mismatch surfaces as a KeyError.
InheritedFromState(cls, attributes, data) ==
    IF ~AttrHas(attributes, "__class__") THEN Fail("KeyError")
    ELSE IF cls = attributes.cls
    THEN [Ok(Construct(cls, data)) EXCEPT !.warned =
             (IF VersionOf(attributes) # FormatVersion THEN {"version"} ELSE {})
                 \cup (IF Cardinality(attributes.present) > 2 THEN {"unused"} ELSE {})]
    ELSE Fail("KeyError")

\* np.asarray(data)
AsArray(data) == IF data.kind = "ndarray" THEN data ELSE NdArray(data.val)

\* ArrayState.from_state
ArrayFromState(attributes, data) ==
    InheritedFromState("ArrayState", attributes,
                       IF data = PyNone THEN data ELSE AsArray(data))

\* ArrayCollectionState.from_state
ArrayCollectionFromState(attributes, data) ==
    LET d == IF data = PyNone THEN data
             ELSE PyTuple([i \in 1..Len(PyIter(data)) |-> AsArray(PyIter(data)[i])])
    IN
    IF ~AttrHas(attributes, "labels") THEN Fail("KeyError")
    ELSE ArrayCollectionState(d, attributes.labels)

\* `{k: v for k, v in zip(keys, data)}`
ZipDict(keys, items) ==
    PyDict([i \in 1..(IF Len(keys) < Len(items) THEN Len(keys) ELSE Len(items))
               |-> <<keys[i], items[i]>>])

\* DictState.from_state
DictFromState(attributes, data) ==
    IF data = PyNone \/ data.kind \notin {"dict", "tuple", "list"}
    THEN Fail("TypeError")
    ELSE IF ~AttrHas(attributes, "__class__") THEN Fail("KeyError")
    ELSE IF attributes.cls # "DictState" THEN Fail("AssertionError")
    ELSE IF data.kind # "dict" /\ AttrHas(attributes, "__keys__")
    THEN Ok(DictState(ZipDict(attributes.keys.val, data.val)))
    ELSE Ok(DictState(data))

\* cls.from_state(attributes, data) for a variant cls
VariantFromState(cls, attributes, data) ==
    IF cls = "ArrayState" THEN ArrayFromState(attributes, data)
    ELSE IF cls = "ArrayCollectionState" THEN ArrayCollectionFromState(attributes, data)
    ELSE IF cls = "DictState" THEN DictFromState(attributes, data)
    ELSE InheritedFromState(cls, attributes, data)

\* `cls._state_classes[tag]`: the class, or a KeyError
Resolve(tag) ==
    IF tag \in Registry THEN [ok |-> TRUE, cls |-> tag]
    ELSE [ok |-> FALSE, cls |-> ""]

\* variant: the base builds an ObjectState for a tag it does not know
FromState_Lenient(cls, attributes, data) ==
    IF cls # "StateBase" THEN VariantFromState(cls, attributes, data)
    ELSE IF ~AttrHas(attributes, "__class__") THEN Fail("KeyError")
    ELSE IF ~Resolve(attributes.cls).ok THEN Ok(Construct("ObjectState", data))
    ELSE VariantFromState(Resolve(attributes.cls).cls, attributes, data)

\* cls.from_state(attributes, data), cls the base or a variant
FromState(cls, attributes, data) ==
    IF cls # "StateBase" THEN VariantFromState(cls, attributes, data)
    ELSE IF ~AttrHas(attributes, "__class__") THEN Fail("KeyError")
    ELSE IF attributes.cls = "StateBase" THEN Fail("RuntimeError")
    ELSE IF ~Resolve(attributes.cls).ok THEN Fail("KeyError")
    ELSE VariantFromState(Resolve(attributes.cls).cls, attributes, data)

\* ---------------------------------------------------------- zarr storage
\* A zarr element: an array node (shape, items) or a group (children, a
\* sequence of <<label, element>>), with its attributes
Elem(kind, attributes, shape, items, children) ==
    [kind |-> kind, attrs |-> attributes, shape |-> shape, items |-> items,
     children |-> children]

EmptyAttrs == Attrs({}, "", 0, PyNone, PyNone)
NoElem == Elem("none", EmptyAttrs, <<>>, <<>>, <<>>)

\* element.attrs.update(attrs): zarr keeps attributes as JSON, which has
\* lists and no tuples
JsonAttrs(a) ==
    [a EXCEPT !.labels = IF @.kind = "tuple" THEN PyList(@.val) ELSE @,
              !.keys = IF @.kind = "tuple" THEN PyList(@.val) ELSE @]

\* zarr_group.array(label, data): an array keeps its shape; any other value
\* goes through np.asanyarray and is stored as a 0-dimensional array
ArrayNode(data) ==
    IF data.kind = "ndarray"
    THEN Elem("array", EmptyAttrs, <<Len(data.val)>>, data.val, <<>>)
    ELSE Elem("array", EmptyAttrs, <<>>, <<data>>, <<>>)

HasChild(e, label) == \E i \in 1..Len(e.children) : e.children[i][1] = label
Child(e, label) ==
    e.children[CHOOSE i \in 1..Len(e.children) : e.children[i][1] = label][2]

\* _write_zarr_data of the four variants: the element that holds the data
RECURSIVE WriteZarr(_)
WriteZarrData(s) ==
    IF s.kind \in {"ObjectState", "ArrayState"} THEN ArrayNode(DataStore(s))
    ELSE IF s.kind = "ArrayCollectionState"
    THEN LET n == IF Len(s.labels) < Len(s.val.val) THEN Len(s.labels)
                  ELSE Len(s.val.val)
         IN Elem("group", EmptyAttrs, <<>>, <<>>,
                 [i \in 1..n |-> <<s.labels[i], ArrayNode(s.val.val[i])>>])
    ELSE Elem("group", EmptyAttrs, <<>>, <<>>,
              [i \in 1..Len(s.val.val) |->
                  <<s.val.val[i][1], WriteZarr(s.val.val[i][2])>>])

\* StateBase._write_zarr: the data, then the attributes on the same element
WriteZarr(s) == [WriteZarrData(s) EXCEPT !.attrs = JsonAttrs(AttributesStore(s))]

\* variant: the 0-dimensional array is returned as it is read
ObjectRead_NoItem(e) == NdArray(e.items)

\* ObjectState._read_zarr_data: `.item()` unwraps a 0-dimensional array
ObjectRead(e) == IF e.shape = <<>> THEN e.items[1] ELSE NdArray(e.items)

\* the result of several calls: the first failure, or all the warnings
AllOk(rs, v) ==
    IF \E i \in 1..Len(rs) : ~rs[i].ok
    THEN Fail(rs[CHOOSE i \in 1..Len(rs) :
                  ~rs[i].ok /\ \A j \in 1..(i - 1) : rs[j].ok].err)
    ELSE [Ok(v) EXCEPT !.warned = UNION {rs[i].warned : i \in 1..Len(rs)}]

\* state_cls._read_zarr_data(zarr_element)
RECURSIVE FromZarr(_)
ReadZarrData(cls, e) ==
    IF cls = "ObjectState" THEN Ok(ObjectRead(e))
    ELSE IF cls = "ArrayState" THEN Ok(NdArray(e.items))
    ELSE IF cls = "ArrayCollectionState"
    THEN IF ~AttrHas(e.attrs, "labels") THEN Fail("KeyError")
         ELSE LET ls == e.attrs.labels.val IN
              IF \E i \in 1..Len(ls) : ~HasChild(e, ls[i]) THEN Fail("KeyError")
              ELSE ArrayCollectionState(
                       PyTuple([i \in 1..Len(ls) |-> NdArray(Child(e, ls[i]).items)]),
                       e.attrs.labels)
    ELSE IF ~AttrHas(e.attrs, "__keys__") THEN Fail("KeyError")
    ELSE LET ks == e.attrs.keys.val IN
         IF \E i \in 1..Len(ks) : ~HasChild(e, ks[i]) THEN Fail("KeyError")
         ELSE LET subs == [i \in 1..Len(ks) |-> FromZarr(Child(e, ks[i]))] IN
              AllOk(subs, PyDict([i \in 1..Len(ks) |-> <<ks[i], subs[i].val>>]))

\* StateBase._from_zarr(zarr_element)
FromZarr(e) ==
    IF ~AttrHas(e.attrs, "__class__") THEN Fail("KeyError")
    ELSE IF ~Resolve(e.attrs.cls).ok THEN Fail("KeyError")
    ELSE LET cls == Resolve(e.attrs.cls).cls
             d == ReadZarrData(cls, e)
         IN
         IF ~d.ok THEN d
         ELSE LET r == VariantFromState(cls, e.attrs, d.val) IN
              [r EXCEPT !.warned = @ \cup d.warned]

\* -------------------------------------------- trajectories of states in zarr
\* An array of a trajectory has one more axis than the data it holds: `shape`
\* is the shape of one item and `items` are the items along the first axis.
\* zarr_group.zeros(label, shape=(0,) + shape, chunks=(1,) + shape)
Zeros(shape) == Elem("array", EmptyAttrs, shape, <<>>, <<>>)

\* the shape of what one leaf array stores: the shape of a numpy array, and
\* () for an item of an array of objects
ShapeOf(data) == IF data.kind = "ndarray" THEN <<Len(data.val)>> ELSE <<>>

\* _prepare_zarr_trajectory of the four variants: arrays without items for
\* the data, then the attributes of the state on the element
RECURSIVE PrepareZarrTrajectory(_)
PrepareZarrTrajectory(s) ==
    LET element ==
            IF s.kind = "ObjectState" THEN Zeros(<<>>)
            ELSE IF s.kind = "ArrayState" THEN Zeros(ShapeOf(DataStore(s)))
            ELSE IF s.kind = "ArrayCollectionState"
            THEN Elem("group", EmptyAttrs, <<>>, <<>>,
                      [i \in 1..Len(s.labels) |->
                          <<s.labels[i], Zeros(ShapeOf(s.val.val[i]))>>])
            ELSE Elem("group", EmptyAttrs, <<>>, <<>>,
                      [i \in 1..Len(s.val.val) |->
                          <<s.val.val[i][1], PrepareZarrTrajectory(s.val.val[i][2])>>])
    IN [element EXCEPT !.attrs = JsonAttrs(AttributesStore(s))]

\* what a call on a stored element leaves: whether it returned, the error
\* it raised, and the element after it
Stored(ok, err, e) == [ok |-> ok, err |-> err, elem |-> e]

\* zarr.Array.append([data]): the item must have the shape of the items of
\* the array, or ValueError is raised and the array stays as it is
ZarrAppend(e, data) ==
    IF e.kind # "array" THEN Stored(FALSE, "AttributeError", e)
    ELSE IF ShapeOf(data) # e.shape THEN Stored(FALSE, "ValueError", e)
    ELSE Stored(TRUE, "", [e EXCEPT !.items = Append(@, data.val)])

\* zarr.Array.resize(len + 1), then `zarr_element[-1] = data`
ResizeAndSet(e, data) ==
    LET resized == [e EXCEPT !.items = Append(@, PyNone)] IN
    Stored(TRUE, "", [resized EXCEPT !.items[Len(resized.items)] = data])

\* `zarr_element[label] = child` in the model of a group
WithChild(e, label, child) ==
    [e EXCEPT !.children =
        [i \in 1..Len(@) |-> IF @[i][1] = label THEN <<label, child>> ELSE @[i]]]

\* _append_to_zarr_trajectory of the four variants. The composites append to
\* their children in order; a child that raises ends the loop and leaves the
\* children before it as they are by then.
RECURSIVE AppendToZarrTrajectory(_, _)
RECURSIVE AppendChildren(_, _, _)
AppendChildren(s, e, i) ==
    LET n == IF s.kind = "ArrayCollectionState"
             THEN (IF Len(s.labels) < Len(s.val.val) THEN Len(s.labels)
                   ELSE Len(s.val.val))
             ELSE Len(s.val.val)
    IN
    IF i > n THEN Stored(TRUE, "", e)
    ELSE LET label == IF s.kind = "ArrayCollectionState" THEN s.labels[i]
                      ELSE s.val.val[i][1]
         IN
         IF ~HasChild(e, label) THEN Stored(FALSE, "KeyError", e)
         ELSE CHOOSE out \in
                  {IF r.ok THEN AppendChildren(s, WithChild(e, label, r.elem), i + 1)
                   ELSE Stored(FALSE, r.err, WithChild(e, label, r.elem)) :
                      r \in {IF s.kind = "ArrayCollectionState"
                             THEN ZarrAppend(Child(e, label), s.val.val[i])
                             ELSE AppendToZarrTrajectory(s.val.val[i][2],
                                                         Child(e, label))}} : TRUE

AppendToZarrTrajectory(s, e) ==
    IF s.kind = "ObjectState" THEN ResizeAndSet(e, DataStore(s))
    ELSE IF s.kind = "ArrayState" THEN ZarrAppend(e, DataStore(s))
    ELSE IF e.kind # "group" THEN Stored(FALSE, "TypeError", e)
    ELSE AppendChildren(s, e, 1)

\* `zarr_element[index]` for an integer index into the first axis: the item,
\* or IndexError beyond the end
ItemAt(e, index) ==
    IF e.kind # "array" THEN Fail("KeyError")
    ELSE IF index < 0 \/ index >= Len(e.items) THEN Fail("IndexError")
    ELSE Ok(IF e.shape = <<>> THEN e.items[index + 1]
            ELSE NdArray(e.items[index + 1]))

\* state_cls._read_zarr_data(zarr_element, index=index)
RECURSIVE FromZarrAt(_, _)
ReadZarrDataAt(cls, e, index) ==
    IF cls \in {"ObjectState", "ArrayState"} THEN ItemAt(e, index)
    ELSE IF cls = "ArrayCollectionState"
    THEN IF ~AttrHas(e.attrs, "labels") THEN Fail("KeyError")
         ELSE LET ls == e.attrs.labels.val IN
              IF \E i \in 1..Len(ls) : ~HasChild(e, ls[i]) THEN Fail("KeyError")
              ELSE LET subs == [i \in 1..Len(ls) |-> ItemAt(Child(e, ls[i]), index)] IN
                   IF \E i \in 1..Len(ls) : ~subs[i].ok THEN AllOk(subs, PyNone)
                   ELSE ArrayCollectionState(
                            PyTuple([i \in 1..Len(ls) |-> subs[i].val]),
                            e.attrs.labels)
    ELSE IF ~AttrHas(e.attrs, "__keys__") THEN Fail("KeyError")
    ELSE LET ks == e.attrs.keys.val IN
         IF \E i \in 1..Len(ks) : ~HasChild(e, ks[i]) THEN Fail("KeyError")
         ELSE LET subs == [i \in 1..Len(ks) |-> FromZarrAt(Child(e, ks[i]), index)] IN
              AllOk(subs, PyDict([i \in 1..Len(ks) |-> <<ks[i], subs[i].val>>]))

\* StateBase._from_zarr(zarr_element, index=index)
FromZarrAt(e, index) ==
    IF ~AttrHas(e.attrs, "__class__") THEN Fail("KeyError")
    ELSE IF ~Resolve(e.attrs.cls).ok THEN Fail("KeyError")
    ELSE LET cls == Resolve(e.attrs.cls).cls IN
         CHOOSE out \in
             {IF ~d.ok THEN d
              ELSE [VariantFromState(cls, e.attrs, d.val)
                       EXCEPT !.warned = @ \cup d.warned] :
                 d \in {ReadZarrDataAt(cls, e, index)}} : TRUE

\* ------------------------------------------------- inputs of the state model
\* numpy arrays and ObjectState payloads (a string, a dict, an array)
ArrayValues == {NdArray(<<1, 2>>), NdArray(<<3>>)}
Payloads == {PyStr("x"), PyDict(<<<<"k", PyStr("y")>>>>), NdArray(<<1, 2>>)}

\* `data` and `labels` arguments of ArrayCollectionState
ArrayTuples == {<<>>, <<NdArray(<<1, 2>>)>>, <<NdArray(<<3>>)>>,
                <<NdArray(<<1, 2>>), NdArray(<<3>>)>>}
LabelSeqs == {<<>>, <<"a">>, <<"b">>, <<"a", "b">>, <<"a", "a">>}
CollectionData == {PyNone} \cup {PyTuple(t) : t \in ArrayTuples}
CollectionLabels == {PyNone} \cup {PyList(l) : l \in LabelSeqs}

ObjectStates == {ObjectState(d) : d \in Payloads}
ArrayStates == {ArrayState(d) : d \in ArrayValues}
\* every ArrayCollectionState that the constructor returns for these arguments
CollectionStates ==
    {ArrayCollectionState(d, l).val :
        <<d, l>> \in {p \in CollectionData \X CollectionLabels :
                         ArrayCollectionState(p[1], p[2]).ok}}

\* the states that are nested in a DictState
Children ==
    {ObjectState(PyStr("x")), ArrayState(NdArray(<<1, 2>>)),
     ArrayCollectionState(PyTuple(<<NdArray(<<3>>)>>), PyList(<<"a">>)).val}
KeySeqs == {<<>>, <<"a">>, <<"b">>, <<"a", "b">>, <<"b", "a">>}
FlatDicts ==
    UNION {{PyDict([i \in 1..Len(ks) |-> <<ks[i], f[i]>>]) :
               f \in [1..Len(ks) -> Children]} : ks \in KeySeqs}
\* a DictState inside a DictState, and a sequence instead of a dict
NestedDicts ==
    {PyDict(<<<<"a", DictState(PyDict(<<<<"b", c>>>>))>>, <<"b", c>>>>) :
        c \in Children}
DictData ==
    FlatDicts \cup NestedDicts \cup {PyNone}
        \cup {PyTuple(<<c>>) : c \in Children}
DictStates == {DictState(d) : d \in DictData}

States == ObjectStates \cup ArrayStates \cup CollectionStates \cup DictStates

\* attribute dicts handed to from_state: a class tag (registered, the base,
\* unknown or none), a version (current, other or none), labels or keys
Tags == Registry \cup {"StateBase", "Foo"}
Versions == {FormatVersion, FormatVersion + 1}
PlainAttrs ==
    {Attrs({"__class__", "__version__"}, t, v, PyNone, PyNone) :
        t \in Tags, v \in Versions}
        \cup {Attrs({"__class__"}, t, 0, PyNone, PyNone) : t \in Tags}
        \cup {Attrs({"__version__"}, "", v, PyNone, PyNone) : v \in Versions}
        \cup {Attrs({}, "", 0, PyNone, PyNone)}
AttrInputs ==
    PlainAttrs
        \cup {[a EXCEPT !.present = @ \cup {"labels"}, !.labels = PyList(l)] :
                 a \in PlainAttrs, l \in LabelSeqs \ {<<>>}}
        \cup {[a EXCEPT !.present = @ \cup {"__keys__"}, !.keys = PyList(k)] :
                 a \in PlainAttrs, k \in KeySeqs \ {<<>>}}

\* the data handed to cls.from_state: what that class stores, as the readers
\* and the text formats deliver it
VariantData(cls) ==
    IF cls = "ObjectState" THEN Payloads \cup {PyNone}
    ELSE IF cls = "ArrayState" THEN ArrayValues \cup {PyNone}
    ELSE IF cls = "ArrayCollectionState"
    THEN {PyNone, PyTuple(<<NdArray(<<1, 2>>)>>),
          PyList(<<NdArray(<<1, 2>>), NdArray(<<3>>)>>)}
    ELSE {PyNone,
          PyDict(<<<<"a", ObjectState(PyStr("x"))>>>>),
          PyDict(<<<<"a", ObjectState(PyStr("x"))>>,
                   <<"b", ArrayState(NdArray(<<1, 2>>))>>>>),
          PyTuple(<<ObjectState(PyStr("x"))>>),
          PyList(<<ObjectState(PyStr("x")), ArrayState(NdArray(<<1, 2>>))>>)}

\* the base is handed the data of any variant
DataFor(cls) ==
    IF cls = "StateBase" THEN UNION {VariantData(c) : c \in Registry}
    ELSE VariantData(cls)

\* the attrs argument of _write_zarr: None, or a dict that overrides the
\* version or the class tag of the stored state
WriteAttrs ==
    {EmptyAttrs}
        \cup {Attrs({"__version__"}, "", v, PyNone, PyNone) :
                 v \in {FormatVersion - 1, FormatVersion + 1}}
        \cup {Attrs({"__class__"}, t, 0, PyNone, PyNone) : t \in {"StateBase", "Foo"}}

\* ------------------------------------------- operations on state objects
\* the record kept of the latest call: the operation, what it returned or
\* raised and warned, and its arguments
Result(op, r, cls, attributes, data, other, flag) ==
    [op |-> op, ok |-> r.ok, err |-> r.err, val |-> r.val, warned |-> r.warned,
     cls |-> cls, attrs |-> attributes, data |-> data, other |-> other,
     flag |-> flag]

NoResult == Result("none", Ok(PyNone), "", EmptyAttrs, PyNone, PyNone, FALSE)

\* ObjectState(data)
NewObjectState(data) ==
    /\ obj' = ObjectState(data)
    /\ elem' = NoElem
    /\ res' = Result("ObjectState", Ok(obj'), "ObjectState", EmptyAttrs, data, PyNone, FALSE)
    /\ UNCHANGED notCodecVars

\* ArrayState(data)
NewArrayState(data) ==
    /\ obj' = ArrayState(data)
    /\ elem' = NoElem
    /\ res' = Result("ArrayState", Ok(obj'), "ArrayState", EmptyAttrs, data, PyNone, FALSE)
    /\ UNCHANGED notCodecVars

\* ArrayCollectionState(data, labels=labels)
NewArrayCollectionState(data, labels) ==
    LET r == ArrayCollectionState(data, labels) IN
    /\ obj' = r.val
    /\ elem' = NoElem
    /\ res' = Result("ArrayCollectionState", r, "ArrayCollectionState", EmptyAttrs,
                     data, labels, FALSE)
    /\ UNCHANGED notCodecVars

\* DictState(data)
NewDictState(data) ==
    /\ obj' = DictState(data)
    /\ elem' = NoElem
    /\ res' = Result("DictState", Ok(obj'), "DictState", EmptyAttrs, data, PyNone, FALSE)
    /\ UNCHANGED notCodecVars

\* dict.update
UpdateAttrs(a, b) ==
    [present |-> a.present \cup b.present,
     cls |-> IF AttrHas(b, "__class__") THEN b.cls ELSE a.cls,
     version |-> IF AttrHas(b, "__version__") THEN b.version ELSE a.version,
     labels |-> IF AttrHas(b, "labels") THEN b.labels ELSE a.labels,
     keys |-> IF AttrHas(b, "__keys__") THEN b.keys ELSE a.keys]

\* obj._write_zarr(zarr_group, attrs=extra) into an empty group
WriteZarrAction(extra) ==
    /\ obj # PyNone
    /\ elem = NoElem
    /\ elem' = [WriteZarr(obj) EXCEPT !.attrs = UpdateAttrs(@, JsonAttrs(extra))]
    /\ res' = Result("write", Ok(PyNone), obj.kind, extra, PyNone, PyNone, FALSE)
    /\ UNCHANGED <<obj, notCodecVars>>

\* StateBase._from_zarr(element) of the element written before
FromZarrAction ==
    /\ elem # NoElem
    /\ res.op = "write"
    /\ res' = Result("from_zarr", FromZarr(elem), "StateBase", res.attrs, PyNone,
                     PyNone, FALSE)
    /\ UNCHANGED <<obj, elem, notCodecVars>>

\* cls.from_state(attributes, data): a class method, whose outcome depends on
\* its arguments only; it is called once per run, while nothing is stored
FromStateAction(cls, attributes, data) ==
    /\ elem = NoElem
    /\ res.op \notin {"from_state", "eq"}
    /\ obj' = PyNone
    /\ elem' = NoElem
    /\ res' = Result("from_state", FromState(cls, attributes, data), cls, attributes,
                     data, PyNone, FALSE)
    /\ UNCHANGED notCodecVars

\* obj == other
Compare(other) ==
    /\ obj # PyNone
    /\ elem = NoElem
    /\ res' = Result("eq", Ok(PyNone), obj.kind, EmptyAttrs, PyNone, other,
                     StateEq(obj, other))
    /\ UNCHANGED <<obj, elem, notCodecVars>>

\* StateBase.copy: `from_state(self.attributes, copy.deepcopy(self.data))`;
\* DictState.copy: `self.__class__({k: v.copy() for k, v in self.data.items()})`
RECURSIVE Copy(_)
Copy(s) ==
    IF s.kind = "DictState"
    THEN LET subs == [i \in 1..Len(s.val.val) |-> Copy(s.val.val[i][2])] IN
         AllOk(subs, DictState(PyDict([i \in 1..Len(s.val.val) |->
                                          <<s.val.val[i][1], subs[i].val>>])))
    ELSE VariantFromState(s.kind, Attributes(s), s.val)

\* obj.copy()
CopyAction ==
    /\ obj # PyNone
    /\ elem = NoElem
    /\ res' = Result("copy", Copy(obj), obj.kind, EmptyAttrs, PyNone, PyNone, FALSE)
    /\ UNCHANGED <<obj, elem, notCodecVars>>

\* ---------------------------------------- operations on a stored trajectory
\* the lengths of the arrays below an element
RECURSIVE LeafLengths(_)
LeafLengths(e) ==
    IF e.kind = "array" THEN {Len(e.items)}
    ELSE UNION {LeafLengths(e.children[i][2]) : i \in 1..Len(e.children)}

\* the snapshots of one trajectory are states of the structure that the
\* storage was prepared for: the same variant with the same labels or keys;
\* the shapes of their arrays are free
RECURSIVE Fits(_, _)
Fits(s, e) ==
    /\ s.kind = e.attrs.cls
    /\ s.kind = "ArrayCollectionState" => s.labels = e.attrs.labels.val
    /\ s.kind = "DictState" =>
           /\ DictKeys(s.val) = e.attrs.keys.val
           /\ \A i \in 1..Len(s.val.val) :
                  Fits(s.val.val[i][2], Child(e, s.val.val[i][1]))

\* the record kept of the latest call on the trajectory: the operation, its
\* argument, whether it returned, the error, the state it returned and the
\* element before the call
SnapResult(op, arg, ok, err, val, before) ==
    [op |-> op, arg |-> arg, ok |-> ok, err |-> err, val |-> val, before |-> before]
NoSnapResult == SnapResult("none", PyNone, TRUE, "", PyNone, NoElem)

\* state._prepare_zarr_trajectory(zarr_group); a label is created once
PrepareTrajectory(s) ==
    /\ traj = NoElem
    /\ traj' = PrepareZarrTrajectory(s)
    /\ snaps' = <<>>
    /\ tres' = SnapResult("prepare", s, TRUE, "", PyNone, traj)
    /\ UNCHANGED notSnapVars

\* state._append_to_zarr_trajectory(zarr_element)
AppendToTrajectory(s) ==
    /\ traj # NoElem
    /\ Fits(s, traj)
    /\ Len(snaps) < MaxLen
    /\ \A n \in LeafLengths(traj) : n < MaxLen
    /\ \E r \in {AppendToZarrTrajectory(s, traj)} :
           /\ traj' = r.elem
           /\ snaps' = IF r.ok THEN Append(snaps, s) ELSE snaps
           /\ tres' = SnapResult("append", s, r.ok, r.err, PyNone, traj)
    /\ UNCHANGED notSnapVars

\* StateBase._from_zarr(zarr_element, index=index)
ReadSnapshot(index) ==
    /\ traj # NoElem
    /\ \E r \in {FromZarrAt(traj, index)} :
           tres' = SnapResult("read", Py("int", index, <<>>), r.ok, r.err, r.val, traj)
    /\ UNCHANGED <<traj, snaps, notSnapVars>>

\* ---------------------------------------------------------- job.parameters
\* further Python values: int, float (named by its literal) and the NoValue
\* sentinel
PyInt(n) == Py("int", n, <<>>)
PyFloat(s) == Py("float", s, <<>>)
NoValue == Py("NoValueType", <<>>, <<>>)

\* the strings that float() accepts and what float() and int() make of them
\* ("" where int() raises ValueError)
Numeric ==
    [s \in {"3", "2.5"} |->
        IF s = "3" THEN [float |-> PyInt(3), int |-> PyInt(3)]
        ELSE [float |-> PyFloat("2.5"), int |-> PyNone]]

\* float(value): a TypeError for a value that is no number and no string, a
\* ValueError for a string that is no number
ToFloat(value) ==
    IF value.kind \in {"int", "float"} THEN Ok(value)
    ELSE IF value.kind # "str" THEN Fail("TypeError")
    ELSE IF value.val \in DOMAIN Numeric THEN Ok(Numeric[value.val].float)
    ELSE Fail("ValueError")

\* int(value)
ToInt(value) ==
    IF value.kind = "int" THEN Ok(value)
    ELSE IF value.kind = "float" THEN Ok(PyInt(2))
    ELSE IF value.kind # "str" THEN Fail("TypeError")
    ELSE IF value.val \in DOMAIN Numeric /\ Numeric[value.val].int # PyNone
    THEN Ok(Numeric[value.val].int)
    ELSE Fail("ValueError")

\* str(value)
ToStr(value) ==
    IF value.kind = "str" THEN Ok(value)
    ELSE IF value.kind = "int" THEN Ok(PyStr(ToString(value.val)))
    ELSE IF value.kind = "float" THEN Ok(PyStr(value.val))
    ELSE Ok(PyStr(value.kind))

\* auto_type: only the TypeError of float() is caught
auto_type(value) ==
    LET float_val == ToFloat(value)
        int_val == ToInt(value)
    IN  IF ~float_val.ok
        THEN IF float_val.err = "TypeError" THEN Ok(value) ELSE float_val
        ELSE IF ~int_val.ok
        THEN IF int_val.err = "ValueError" THEN float_val ELSE int_val
        ELSE IF int_val.val = float_val.val THEN int_val
        ELSE float_val

\* Parameter(name, default_value, cls, hidden=...) and DeprecatedParameter:
\* the objects that the classes below declare, by identity
Parameter(kind, name, default_value, cls, isHidden) ==
    [kind |-> kind, name |-> name, default_value |-> default_value, cls |-> cls,
     hidden |-> isHidden]

ParameterObjects ==
    <<Parameter("Parameter", "a", PyInt(1), "int", FALSE),
      Parameter("Parameter", "b", PyNone, "object", FALSE),
      Parameter("DeprecatedParameter", "d", PyInt(2), "int", FALSE),
      Parameter("Parameter", "h", PyStr("x"), "str", TRUE),
      Parameter("Parameter", "b", PyInt(2), "int", FALSE),
      Parameter("Parameter", "a", PyStr("3"), "object", FALSE)>>

ParameterIds == DOMAIN ParameterObjects

\* HideParameter(name)
HideParameter(name) == [kind |-> "HideParameter", name |-> name, id |-> 0]
Declared(id) == [kind |-> ParameterObjects[id].kind, name |-> ParameterObjects[id].name, id |-> id]

\* three Parameterized classes: Base, Child(Base), GrandChild(Child)
Classes == {"Base", "Child", "GrandChild"}

\* `cls.parameters_default`
parameters_default(cls) ==
    IF cls = "Base" THEN <<Declared(1), Declared(2), Declared(3), Declared(4)>>
    ELSE IF cls = "Child" THEN <<HideParameter("a"), Declared(5)>>
    ELSE <<Declared(6)>>

\* reversed(cls.__mro__), the classes that have a non-empty parameters_default
ReversedMro(cls) ==
    IF cls = "Base" THEN <<"Base">>
    ELSE IF cls = "Child" THEN <<"Base", "Child">>
    ELSE <<"Base", "Child", "GrandChild">>

\* Parameter.convert(value, strict=strict) of the object `id`
convert(id, value, strict) ==
    LET p == ParameterObjects[id]
        v == IF value = NoValue THEN p.default_value ELSE value
        made == IF p.cls = "int" THEN ToInt(v) ELSE ToStr(v)
    IN  IF v \in {NoValue, PyNone} THEN Ok(v)
        ELSE IF p.cls = "object" THEN auto_type(v)
        ELSE IF made.ok THEN made
        ELSE IF strict THEN Fail("ValueError")
        ELSE Ok(v)

\* a dict of parameters in insertion order: a sequence of <<name, id>>
HasName(params, name) == \E i \in 1..Len(params) : params[i][1] = name
IdOf(params, name) == params[CHOOSE i \in 1..Len(params) : params[i][1] = name][2]

\* `parameters[p.name] = p`: a known name keeps its place
SetItem(params, name, id) ==
    IF HasName(params, name)
    THEN [i \in 1..Len(params) |->
             IF params[i][1] = name THEN <<name, id>> ELSE params[i]]
    ELSE Append(params, <<name, id>>)

\* `del parameters[p.name]`
DelItem(params, name) == SelectSeq(params, LAMBDA e : e[1] # name)

\* the loop of get_parameters over the entries of one parameters_default;
\* `acc` holds the dict, the hidden attributes and the exception raised
RECURSIVE CollectClass(_, _, _, _)
CollectClass(entries, i, include_hidden, acc) ==
    IF i > Len(entries) \/ ~acc.ok THEN acc
    ELSE LET p == entries[i]
             next ==
                 IF p.kind = "HideParameter"
                 THEN IF ~HasName(acc.params, p.name)
                      THEN [acc EXCEPT !.ok = FALSE, !.err = "KeyError"]
                      ELSE IF include_hidden
                      THEN [acc EXCEPT !.hidden[IdOf(acc.params, p.name)] = TRUE]
                      ELSE [acc EXCEPT !.params = DelItem(@, p.name)]
                 ELSE [acc EXCEPT !.params = SetItem(@, p.name, p.id)]
         IN  CollectClass(entries, i + 1, include_hidden, next)

\* the loop of get_parameters over reversed(cls.__mro__)
RECURSIVE CollectHierarchy(_, _, _, _)
CollectHierarchy(mro, i, include_hidden, acc) ==
    IF i > Len(mro) THEN acc
    ELSE CollectHierarchy(mro, i + 1, include_hidden,
             CollectClass(parameters_default(mro[i]), 1, include_hidden, acc))

\* the helper `show` of get_parameters, on the current hidden attributes
show(id, hid, include_hidden, include_deprecated) ==
    /\ include_hidden \/ ~hid[id]
    /\ include_deprecated \/ ParameterObjects[id].kind # "DeprecatedParameter"

\* the parameter names in sorted order
SortedNames == <<"a", "b", "d", "h", "y", "z">>

\* `OrderedDict(sorted(result.items()))`
Sorted(params) ==
    LET names == SelectSeq(SortedNames, LAMBDA n : HasName(params, n))
    IN  [i \in 1..Len(names) |-> <<names[i], IdOf(params, names[i])>>]

\* cls.get_parameters(include_hidden, include_deprecated, sort) when the
\* hidden attributes are `hid`: the dict returned (name and object) and the
\* hidden attributes afterwards
get_parameters(cls, hid, include_hidden, include_deprecated, sort) ==
    LET collected == CollectHierarchy(ReversedMro(cls), 1, include_hidden,
                         [ok |-> TRUE, err |-> "", params |-> <<>>, hidden |-> hid])
        Shown(acc) == SelectSeq(acc.params,
                          LAMBDA e : show(e[2], acc.hidden, include_hidden, include_deprecated))
        Return(acc, result) ==
            IF ~acc.ok THEN [acc EXCEPT !.params = <<>>]
            ELSE [acc EXCEPT !.params = IF sort THEN Sorted(result) ELSE result]
    IN  CHOOSE r \in {Return(acc, result) : acc \in {collected}, result \in {Shown(collected)}} : TRUE

\* `parameters.pop(name, NoValue)` and what is left of the dict
Pop(d, name) == IF name \in DictKeySet(d) THEN DictGet(d, name) ELSE NoValue
Without(d, names) == PyDict(SelectSeq(d.val, LAMBDA e : e[1] \notin names))

\* what the caller's dict holds after the call: _parse_parameters works on
\* `parameters.copy()`, so its pops do not reach the dict that was passed
CallersDict(parameters, work) == parameters

\* the end of _parse_parameters: the ValueError for undeclared keys, or
\* `result.update(parameters)`
Leftover(check_validity, rest, result) ==
    IF check_validity /\ Len(rest.val) > 0 THEN Fail("ValueError")
    ELSE Ok(PyDict(result \o rest.val))

\* cls._parse_parameters(parameters, check_validity, allow_hidden,
\* include_deprecated): the dict returned or the exception, the hidden
\* attributes afterwards and the caller's dict afterwards
_parse_parameters(cls, hid, parameters, check_validity, allow_hidden, include_deprecated) ==
    LET work == IF parameters = PyNone THEN PyDict(<<>>) ELSE parameters
        Parse(objs) ==
            LET n == Len(objs.params)
                name(i) == objs.params[i][1]
                conv == [i \in 1..n |->
                            convert(objs.params[i][2], Pop(work, name(i)), check_validity)]
                popped(k) == Without(work, {name(i) : i \in 1..k})
                Returned(r, k) ==
                    [ok |-> r.ok, err |-> r.err, val |-> r.val, hidden |-> objs.hidden,
                     caller |-> CallersDict(parameters, popped(k))]
                Loop(c) ==
                    LET bad == {i \in 1..n : ~c[i].ok}
                        first == CHOOSE i \in bad : \A j \in bad : i <= j
                    IN  IF bad # {} THEN Returned(Fail(c[first].err), first)
                        ELSE Returned(Leftover(check_validity, popped(n),
                                               [i \in 1..n |-> <<name(i), c[i].val>>]), n)
            IN  IF ~objs.ok THEN Returned(Fail(objs.err), 0)
                ELSE CHOOSE r \in {Loop(c) : c \in {conv}} : TRUE
    IN  CHOOSE r \in {Parse(objs) : objs \in {get_parameters(cls, hid, allow_hidden,
                                                  include_deprecated, TRUE)}} : TRUE

\* ------------------------------------------- inputs of the parameter model
\* keys of the dicts passed in: two declared names and an undeclared one
ParamKeys == {"a", "b", "z"}
ParamValues == {PyInt(2), PyStr("3"), PyStr("x"), PyNone}

\* the dict with the items of the function f, keys in sorted order
DictOf(f) ==
    LET names == SelectSeq(SortedNames, LAMBDA n : n \in DOMAIN f)
    IN  PyDict([i \in 1..Len(names) |-> <<names[i], f[names[i]]>>])

\* the `parameters` arguments: None or a dict
ParamDicts ==
    {PyNone} \cup {DictOf(f) : f \in UNION {[K -> ParamValues] : K \in SUBSET ParamKeys}}

\* --------------------------------- operations on the Parameterized classes
\* the record kept of the latest call
ParamResult(op, cls, r, parameters, strict, include_hidden, include_deprecated, sort) ==
    [op |-> op, cls |-> cls, ok |-> r.ok, err |-> r.err, val |-> r.val,
     caller |-> r.caller, parameters |-> parameters, strict |-> strict,
     include_hidden |-> include_hidden, include_deprecated |-> include_deprecated,
     sort |-> sort, before |-> hidden]

NoParamResult ==
    [op |-> "none", cls |-> "", ok |-> TRUE, err |-> "", val |-> PyNone,
     caller |-> PyNone, parameters |-> PyNone, strict |-> FALSE,
     include_hidden |-> FALSE, include_deprecated |-> FALSE, sort |-> FALSE,
     before |-> [id \in ParameterIds |-> ParameterObjects[id].hidden]]

\* cls.get_parameters(include_hidden, include_deprecated, sort)
GetParametersAction(cls, include_hidden, include_deprecated, sort) ==
    \E r \in {get_parameters(cls, hidden, include_hidden, include_deprecated, sort)} :
        /\ hidden' = r.hidden
        /\ pres' = ParamResult("get_parameters", cls,
                       [ok |-> r.ok, err |-> r.err, val |-> PyTuple(r.params), caller |-> PyNone],
                       PyNone, FALSE, include_hidden, include_deprecated, sort)
        /\ UNCHANGED notParamVars

\* cls._parse_parameters(parameters, check_validity, allow_hidden,
\* include_deprecated); the calls are explored after a query or at the start
ParseParametersAction(cls, parameters, check_validity, allow_hidden, include_deprecated) ==
    /\ pres.op \in {"none", "get_parameters"}
    /\ \E r \in {_parse_parameters(cls, hidden, parameters, check_validity, allow_hidden,
                                  include_deprecated)} :
        /\ hidden' = r.hidden
        /\ pres' = ParamResult("_parse_parameters", cls, r, parameters, check_validity,
                       allow_hidden, include_deprecated, TRUE)
        /\ UNCHANGED notParamVars

\* cls(parameters, strict=strict): Parameterized.__init__ sets self.parameters
ParameterizedInit(cls, parameters, strict) ==
    /\ pres.op \in {"none", "get_parameters"}
    /\ \E r \in {_parse_parameters(cls, hidden, parameters, strict, TRUE, TRUE)} :
        /\ hidden' = r.hidden
        /\ pres' = ParamResult("Parameterized", cls, r, parameters, strict, TRUE, TRUE, TRUE)
        /\ UNCHANGED notParamVars

\* ------------------------------------------------------ modelrunner.run.job
\* names of the job parameters and `name.replace('_', '')[:length].upper()`
\* of each (length is 7)
JobParamNames == {"a", "b_c"}
Abbreviated == [n \in JobParamNames |-> IF n = "a" THEN "A" ELSE "BC"]

\* get_job_name(base, args): the stem and one part <<NAME, value>> per item of
\* args, in the order of args; `f"{value:g}"` of an int is the int
get_job_name(base, args) ==
    <<base>> \o [i \in 1..Len(args.val) |-> <<Abbreviated[args.val[i][1]], args.val[i][2].val>>]

\* `Path(output_folder) / f"{name}{output_format}"`
OutputPath(folder, name, output_format) ==
    [folder |-> folder, name |-> name, ext |-> output_format]

\* the directory that submit_jobs writes to, and an output given directly
OutputFolder == [folder |-> "out", name |-> <<>>, ext |-> ""]
NoOutput == [folder |-> "", name |-> <<>>, ext |-> ""]

\* submission methods with a branch in submit_job, and the standard templates
\* `templates/<method>.template`
SubmitMethods == {"qsub", "srun", "foreground", "background"}
TemplateFound(template, method) == template # None \/ method \in SubmitMethods

OverwriteStrategies ==
    {"error", "warn_skip", "silent_skip", "overwrite", "silent_overwrite"}

\* json.dumps(parameters) of a dict of ints, strings and lists: a str (of
\* kind "json") that holds the items
JsonDumps(d) == Py("json", d.val, <<>>)

\* the `--json` argument of the job: none for None and for an empty value, a
\* TypeError for a value that is neither a dict nor a string
JobParameters(parameters) ==
    IF parameters = PyNone \/ Len(parameters.val) = 0 THEN Ok(PyNone)
    ELSE IF parameters.kind = "dict" THEN Ok(JsonDumps(parameters))
    ELSE IF parameters.kind \in {"str", "json"} THEN Ok(parameters)
    ELSE Fail("TypeError")

\* variant: an unknown strategy is treated like silent_overwrite
Existing_UnknownOverwrites(overwrite_strategy) ==
    IF overwrite_strategy = "error" THEN [do |-> "raise", err |-> "RuntimeError", warn |-> {}]
    ELSE IF overwrite_strategy = "warn_skip" THEN [do |-> "return", err |-> "", warn |-> {"exists"}]
    ELSE IF overwrite_strategy = "silent_skip" THEN [do |-> "return", err |-> "", warn |-> {}]
    ELSE IF overwrite_strategy = "overwrite" THEN [do |-> "unlink", err |-> "", warn |-> {"overwritten"}]
    ELSE [do |-> "unlink", err |-> "", warn |-> {}]

\* what submit_job does when `output.is_file()`: raise, return without
\* submitting, or delete the file and go on; and the warning it issues
Existing(overwrite_strategy) ==
    IF overwrite_strategy = "error" THEN [do |-> "raise", err |-> "RuntimeError", warn |-> {}]
    ELSE IF overwrite_strategy = "warn_skip" THEN [do |-> "return", err |-> "", warn |-> {"exists"}]
    ELSE IF overwrite_strategy = "silent_skip" THEN [do |-> "return", err |-> "", warn |-> {}]
    ELSE IF overwrite_strategy = "overwrite" THEN [do |-> "unlink", err |-> "", warn |-> {"overwritten"}]
    ELSE IF overwrite_strategy = "silent_overwrite" THEN [do |-> "unlink", err |-> "", warn |-> {}]
    ELSE [do |-> "raise", err |-> "NotImplementedError", warn |-> {}]

\* one run of submit_job on the files `fs` with the log folder present or not:
\* what it returns or raises, the warnings, the files and the log folder
\* afterwards and the jobs handed to the queue (none or one)
submit_job(files, logdir, output, name, parameters, method, template, overwrite_strategy) ==
    LET raised(e, w, f, l) ==
            [ok |-> FALSE, err |-> e, ret |-> "", warned |-> w, fs |-> f, logs |-> l,
             jobs |-> <<>>]
        exists == output # NoOutput /\ output \in files
        todo == Existing(overwrite_strategy)
        after == IF exists /\ todo.do = "unlink" THEN files \ {output} ELSE files
        job == [name |-> name, parameters |-> JobParameters(parameters).val,
                output |-> IF output = OutputFolder THEN NoOutput ELSE output,
                folder |-> IF output = NoOutput THEN "." ELSE output.folder]
    IN  IF ~TemplateFound(template, method) THEN raised("FileNotFoundError", {}, files, logdir)
        ELSE IF ~JobParameters(parameters).ok THEN raised("TypeError", {}, files, TRUE)
        ELSE IF exists /\ todo.do = "raise" THEN raised(todo.err, {}, files, TRUE)
        ELSE IF exists /\ todo.do = "return"
        THEN [ok |-> TRUE, err |-> "", ret |-> "exists", warned |-> todo.warn, fs |-> files,
              logs |-> TRUE, jobs |-> <<>>]
        ELSE IF method \notin SubmitMethods
        THEN raised("ValueError", IF exists THEN todo.warn ELSE {}, after, TRUE)
        ELSE [ok |-> TRUE, err |-> "", ret |-> "communicate",
              warned |-> IF exists THEN todo.warn ELSE {}, fs |-> after, logs |-> TRUE,
              jobs |-> <<job>>]

\* `json.loads(parameters)` of the text that JsonDumps makes
JsonLoads(s) == PyDict(s.val)

\* `params.update(p_job)`: known keys keep their place, new ones are appended
DictUpdate(d, e) ==
    PyDict([i \in 1..Len(d.val) |->
               IF d.val[i][1] \in DictKeySet(e) THEN <<d.val[i][1], DictGet(e, d.val[i][1])>>
               ELSE d.val[i]]
           \o SelectSeq(e.val, LAMBDA x : x[1] \notin DictKeySet(d)))

\* the varying parameters: iterable, not a string, not named in list_params
Varies(item, list_params) == item[2].kind = "list" /\ item[1] \notin list_params

\* `itertools.product(*p_vary.values())` zipped with the keys: every
\* combination as a dict, the last parameter running fastest
RECURSIVE Combinations(_, _)
Combinations(p_vary, i) ==
    IF i > Len(p_vary) THEN <<PyDict(<<>>)>>
    ELSE LET rest == Combinations(p_vary, i + 1)
             values == p_vary[i][2].val
         IN  [k \in 1..(Len(values) * Len(rest)) |->
                 PyDict(<<<<p_vary[i][1], values[((k - 1) \div Len(rest)) + 1]>>>>
                        \o rest[((k - 1) % Len(rest)) + 1].val)]

\* the loop of submit_jobs over p_vary_list from the i-th combination on; an
\* exception of submit_job ends it
RECURSIVE SubmitLoop(_, _, _, _, _)
SubmitLoop(p_vary_list, i, acc, name_base, overwrite_strategy) ==
    IF i > Len(p_vary_list) \/ ~acc.ok THEN acc
    ELSE LET p_job == p_vary_list[i]
             name == get_job_name(name_base, p_job)
             Step(a, params) ==
                 LET r == submit_job(a.fs, a.logs, OutputPath("out", name, ".hdf"), name,
                                     params, "background", None, overwrite_strategy)
                 IN  [ok |-> r.ok, err |-> r.err, warned |-> a.warned \cup r.warned,
                      fs |-> r.fs, logs |-> r.logs, jobs |-> a.jobs \o r.jobs,
                      params |-> params]
         IN  SubmitLoop(p_vary_list, i + 1,
                 CHOOSE n \in {Step(a, DictUpdate(a.params, p_job)) : a \in {acc}} : TRUE,
                 name_base, overwrite_strategy)

\* one run of submit_jobs(script, "out", name_base, parameters,
\* list_params=list_params, overwrite_strategy=overwrite_strategy)
submit_jobs(files, logdir, name_base, parameters, list_params, overwrite_strategy) ==
    LET parameter_dict == IF parameters = PyNone THEN PyDict(<<>>)
                          ELSE IF parameters.kind = "json" THEN JsonLoads(parameters)
                          ELSE parameters
        keep == IF list_params = PyNone THEN {}
                ELSE {list_params.val[i] : i \in 1..Len(list_params.val)}
        p_vary == SelectSeq(parameter_dict.val, LAMBDA item : Varies(item, keep))
        params == PyDict(SelectSeq(parameter_dict.val, LAMBDA item : ~Varies(item, keep)))
        p_vary_list == Combinations(p_vary, 1)
        done == SubmitLoop(p_vary_list, 1,
                    [ok |-> TRUE, err |-> "", warned |-> {}, fs |-> files, logs |-> logdir,
                     jobs |-> <<>>, params |-> params],
                    name_base, overwrite_strategy)
    IN  [ok |-> done.ok, err |-> done.err, ret |-> "",
         count |-> IF done.ok THEN Len(p_vary_list) ELSE 0, combinations |-> p_vary_list,
         warned |-> done.warned, fs |-> done.fs, logs |-> done.logs, jobs |-> done.jobs]

\* ------------------------------------------------ inputs of the job model
\* values of a job parameter: a number, a string, lists of numbers
JobValues ==
    {PyInt(1), PyStr("x"), PyList(<<>>), PyList(<<PyInt(1), PyInt(2)>>), PyList(<<PyInt(3)>>)}

\* the `parameters` of submit_jobs: None, dicts over the two names, and one
\* JSON text
JobDicts ==
    {PyNone, JsonDumps(PyDict(<<<<"a", PyList(<<PyInt(1), PyInt(2)>>)>>>>))}
        \cup {PyDict(<<<<"a", v>>>>) : v \in JobValues}
        \cup {PyDict(<<<<"a", v>>, <<"b_c", w>>>>) :
                 v \in JobValues, w \in {PyInt(3), PyList(<<PyInt(3)>>)}}

\* the `parameters` of submit_job: None, an empty dict, a dict and a list
\* (not allowed)
SubmitParameters ==
    {PyNone, PyDict(<<>>), PyDict(<<<<"a", PyInt(1)>>>>), PyList(<<PyInt(1)>>)}

\* output files that exist or not: those of the jobs that vary "a" alone
FilePaths ==
    {OutputPath("out", get_job_name("job", PyDict(<<<<"a", PyInt(k)>>>>)), ".hdf") : k \in {1, 2}}

\* the `output` of submit_job: None, a file path, a directory
Outputs == {NoOutput, OutputFolder} \cup FilePaths

Strategies == OverwriteStrategies \cup {"other"}

\* ------------------------------------------------ operations of the job model
\* the record kept of the latest call, with the files before and after it
JobResult(op, r, count, combinations, output, parameters, list_params, method, template, overwrite_strategy) ==
    [op |-> op, ok |-> r.ok, err |-> r.err, ret |-> r.ret, warned |-> r.warned,
     jobs |-> r.jobs, count |-> count, combinations |-> combinations, before |-> fs, after |-> r.fs,
     output |-> output, parameters |-> parameters, list_params |-> list_params,
     method |-> method, template |-> template, overwrite_strategy |-> overwrite_strategy]

NoJobResult ==
    [op |-> "none", ok |-> TRUE, err |-> "", ret |-> "", warned |-> {}, jobs |-> <<>>,
     count |-> 0, combinations |-> <<>>, before |-> {}, after |-> {}, output |-> NoOutput,
     parameters |-> PyNone, list_params |-> PyNone, method |-> "", template |-> None,
     overwrite_strategy |-> ""]

\* a job that ran earlier has written its output file
OutputWritten(path) ==
    /\ path \notin fs
    /\ fs' = fs \cup {path}
    /\ UNCHANGED <<logs, jres, notJobVars>>

\* submit_job(script, output, "job", parameters, method=method,
\* template=template, overwrite_strategy=overwrite_strategy)
SubmitJobAction(output, parameters, method, template, overwrite_strategy) ==
    \E r \in {submit_job(fs, logs, output, <<"job">>, parameters, method, template,
                         overwrite_strategy)} :
        /\ fs' = r.fs
        /\ logs' = r.logs
        /\ jres' = JobResult("submit_job", r, 0, <<>>, output, parameters, PyNone, method,
                             template, overwrite_strategy)
        /\ UNCHANGED notJobVars

\* submit_jobs(script, "out", "job", parameters, list_params=list_params,
\* overwrite_strategy=overwrite_strategy)
SubmitJobsAction(parameters, list_params, overwrite_strategy) ==
    \E r \in {submit_jobs(fs, logs, "job", parameters, list_params, overwrite_strategy)} :
        /\ fs' = r.fs
        /\ logs' = r.logs
        /\ jres' = JobResult("submit_jobs", r, r.count, r.combinations, OutputFolder,
                             parameters, list_params, "background", None,
                             overwrite_strategy)
        /\ UNCHANGED notJobVars

\* ------------------------------------------------------- specification
Init ==
    /\ fileExists = FALSE
    /\ groupExists = FALSE
    /\ hasData = FALSE
    /\ hasTime = FALSE
    /\ dataMeta = NoMeta
    /\ dataArr = <<>>
    /\ timeArr = <<>>
    /\ attrs = NoAttrs
    /\ wState = "none"
    /\ wItemType = "unset"
    /\ rState = "none"
    /\ rItemType = "unset"
    /\ rTimes = <<>>
    /\ rAttrs = NoAttrs
    /\ itState = "none"
    /\ itPos = 0
    /\ yielded = <<>>
    /\ itRestarted = FALSE
    /\ storage = "none"
    /\ scope = "none"
    /\ last = Outcome("init", TRUE, "", None, 0, NoVal, NoVal)
    /\ log = <<>>
    /\ obj = PyNone
    /\ elem = NoElem
    /\ res = NoResult
    /\ hidden = [id \in ParameterIds |-> ParameterObjects[id].hidden]
    /\ pres = NoParamResult
    /\ fs = {}
    /\ logs = FALSE
    /\ jres = NoJobResult
    /\ traj = NoElem
    /\ snaps = <<>>
    /\ tres = NoSnapResult

Next ==
    \/ \E mode \in WriterModes, ua \in UserAttrs : WriterInit(mode, ua)
    \/ \E data \in DataValues, time \in TimeArgs : append(data, time)
    \/ WriterClose
    \/ WriterEnter
    \/ WriterExit
    \/ TrajectoryInit
    \/ TrajectoryClose
    \/ \E key \in (0 - MaxLen - 1)..MaxLen : GetItemAction(key)
    \/ IterStart
    \/ IterNext

Spec == Init /\ [][Next]_vars

\* a storage that already holds a trajectory without snapshots: the arrays and
\* the item_type that a first append creates, nothing appended
InitStored ==
    /\ fileExists = TRUE
    /\ groupExists = TRUE
    /\ hasData = TRUE
    /\ hasTime = TRUE
    /\ \E d \in DataValues :
           /\ dataMeta = NewMeta(d)
           /\ attrs = [item_type |-> ItemTypeOf(d), user |-> None]
    /\ dataArr = <<>>
    /\ timeArr = <<>>
    /\ wState = "none"
    /\ wItemType = "unset"
    /\ rState = "none"
    /\ rItemType = "unset"
    /\ rTimes = <<>>
    /\ rAttrs = NoAttrs
    /\ itState = "none"
    /\ itPos = 0
    /\ yielded = <<>>
    /\ itRestarted = FALSE
    /\ storage = "none"
    /\ scope = "none"
    /\ last = Outcome("init", TRUE, "", None, 0, NoVal, NoVal)
    /\ log = <<>>
    /\ obj = PyNone
    /\ elem = NoElem
    /\ res = NoResult
    /\ hidden = [id \in ParameterIds |-> ParameterObjects[id].hidden]
    /\ pres = NoParamResult
    /\ fs = {}
    /\ logs = FALSE
    /\ jres = NoJobResult
    /\ traj = NoElem
    /\ snaps = <<>>
    /\ tres = NoSnapResult

\* the same operations on a storage that holds an empty trajectory
SpecStored == InitStored /\ [][Next]_vars

\* the operations of modelrunner.state: constructing, writing, loading,
\* rebuilding and comparing state objects
NextCodec ==
    \/ \E data \in Payloads : NewObjectState(data)
    \/ \E data \in ArrayValues : NewArrayState(data)
    \/ \E data \in CollectionData, labels \in CollectionLabels :
           NewArrayCollectionState(data, labels)
    \/ \E data \in DictData : NewDictState(data)
    \/ \E extra \in WriteAttrs : WriteZarrAction(extra)
    \/ FromZarrAction
    \/ \E cls \in Registry \cup {"StateBase"}, attributes \in AttrInputs :
           \E data \in DataFor(cls) : FromStateAction(cls, attributes, data)
    \/ \E other \in States : Compare(other)
    \/ CopyAction

SpecCodec == Init /\ [][NextCodec]_vars

\* the states written to trajectories: the states above, and composites of
\* two fields whose arrays have either shape
Snapshots ==
    States
        \cup {ArrayCollectionState(PyTuple(<<x, y>>), PyList(<<"a", "b">>)).val :
                 x \in ArrayValues, y \in ArrayValues}
        \cup {DictState(PyDict(<<<<"a", ArrayState(x)>>, <<"b", ArrayState(y)>>>>)) :
                 x \in ArrayValues, y \in ArrayValues}
        \cup {DictState(PyDict(<<<<"a", ObjectState(d)>>, <<"b", ArrayState(y)>>>>)) :
                 d \in Payloads, y \in ArrayValues}

\* the operations of modelrunner.state on the trajectory of one state
NextSnaps ==
    \/ \E s \in Snapshots : PrepareTrajectory(s)
    \/ \E s \in Snapshots : AppendToTrajectory(s)
    \/ \E index \in 0..MaxLen : ReadSnapshot(index)

SpecSnaps == Init /\ [][NextSnaps]_vars

\* the operations of job.parameters on the three classes
NextParams ==
    \/ \E cls \in Classes, include_hidden \in BOOLEAN, include_deprecated \in BOOLEAN,
          sort \in BOOLEAN :
           GetParametersAction(cls, include_hidden, include_deprecated, sort)
    \/ \E cls \in Classes, parameters \in ParamDicts, check_validity \in BOOLEAN,
          allow_hidden \in BOOLEAN, include_deprecated \in BOOLEAN :
           ParseParametersAction(cls, parameters, check_validity, allow_hidden,
                                 include_deprecated)
    \/ \E cls \in Classes, parameters \in ParamDicts, strict \in BOOLEAN :
           ParameterizedInit(cls, parameters, strict)

SpecParams == Init /\ [][NextParams]_vars

\* the operations of modelrunner.run.job, and output files appearing
NextJobs ==
    \/ \E path \in FilePaths : OutputWritten(path)
    \/ \E output \in Outputs, parameters \in SubmitParameters,
          method \in {"background", "mail"}, template \in {None, "my.template"},
          overwrite_strategy \in Strategies :
           SubmitJobAction(output, parameters, method, template, overwrite_strategy)
    \/ \E parameters \in JobDicts, list_params \in {PyNone, PyList(<<"a">>)},
          overwrite_strategy \in Strategies :
           SubmitJobsAction(parameters, list_params, overwrite_strategy)

SpecJobs == Init /\ [][NextJobs]_vars

\* ---------------------------------------------------------------- claims
NonDecreasing(times) ==
    \A j, k \in 1..Len(times) : j < k => times[j] <= times[k]

LogData == [k \in 1..Len(log) |-> log[k][1]]
LogTimes == [k \in 1..Len(log) |-> log[k][2]]

\* Python's `==` between a returned item and an appended value: numpy compares
\* contents, broadcasting a single-element array against a scalar
PyEq(x, y) ==
    /\ x.v = y.v
    /\ \/ x.shape = y.shape
       \/ \A k \in 1..Len(x.shape) : x.shape[k] = 1
       \/ \A k \in 1..Len(y.shape) : y.shape[k] = 1

\* C1: after n >= 1 successful appends (d_i, t_i) with non-decreasing times, by
\* one writer or continued by writers reopened in append mode, a Trajectory
\* opens on the location, has length n and times [t_1..t_n], item_at(i) equals
\* d_(i+1) for 0 <= i < n and item_at(-1) equals the last appended value.
C1_RoundTrip ==
    /\ (last.op = "Trajectory" /\ Len(log) >= 1 /\ NonDecreasing(LogTimes))
           => last.ok
    /\ rState = "open" =>
           /\ TrajectoryLen = Len(log)
           /\ rTimes = LogTimes
           /\ \A i \in 0..(Len(log) - 1) :
                  GetItem(i).ok /\ PyEq(GetItem(i).val, LogData[i + 1])
           /\ Len(log) >= 1 =>
                  GetItem(-1).ok /\ PyEq(GetItem(-1).val, LogData[Len(log)])

C1_Witness ==
    /\ rState = "open"
    /\ Len(log) = 3
    /\ LogData[1] # LogData[2]
    /\ attrs.user = "u1"
    /\ last.op = "item_at" /\ last.idx = -1 /\ last.ok

\* C2: a successful append with the time omitted stores 0 when it is the first
\* append of the trajectory and the last recorded time plus one otherwise.
C2_AutoTime ==
    (last.op = "append" /\ last.ok /\ last.idx < 0) =>
        LET n == Len(timeArr) IN
        /\ n >= 1
        /\ timeArr[n] = (IF n = 1 THEN 0 ELSE timeArr[n - 1] + 1)

\* two appends without a time: the stored times are [0, 1]
C2_Witness ==
    /\ last.op = "append" /\ last.ok /\ last.idx < 0
    /\ timeArr = <<0, 1>>

\* C3 as stated: in every reachable state the stored time array is
\* non-decreasing.
C3_Original == NonDecreasing(timeArr)

\* C3 as amended: an append keeps a non-decreasing time array non-decreasing
\* when its time is omitted or is not smaller than the last stored time; the
\* writer does not validate explicit times.
C3_Amended ==
    [][(/\ last'.op = "append" /\ last'.ok
        /\ NonDecreasing(timeArr)
        /\ \/ last'.idx < 0
           \/ timeArr = <<>>
           \/ last'.idx >= Last(timeArr))
       => NonDecreasing(timeArr')]_vars

\* an explicit time, then omitted times
C3_Witness ==
    /\ last.op = "append" /\ last.ok /\ last.idx < 0
    /\ Len(timeArr) = 3
    /\ timeArr[1] = 0 /\ timeArr[3] = 2

\* C4: constructing a Trajectory over stored times fails with a ValueError
\* exactly when an adjacent pair decreases and succeeds otherwise (equal
\* consecutive times included); no reader exists over a non-monotonic array.
C4_MonotonicLoad ==
    /\ (last.op = "Trajectory" /\ hasTime) =>
           /\ last.ok <=> NonDecreasing(timeArr)
           /\ ~last.ok => last.err = "ValueError"
    /\ rState = "open" => NonDecreasing(rTimes)

\* the stored times [0, 1, 0] are refused
C4_Witness ==
    /\ last.op = "Trajectory" /\ ~last.ok /\ last.err = "ValueError"
    /\ timeArr = <<0, 1, 0>>

\* C5: a TrajectoryWriter constructed in a mode that does not allow extension
\* ("full", or None which stands for it) on a location that holds trajectory
\* data fails and leaves arrays, groups and attributes as they were.
C5_ModeEnforcement ==
    [][(/\ last'.op = "TrajectoryWriter"
        /\ last'.mode \in {None, "full"}
        /\ hasData)
       => (~last'.ok /\ storeVars' = storeVars /\ wState' # "open")]_vars

\* a "full" writer refused on a location with data and attributes
C5_Witness ==
    /\ last.op = "TrajectoryWriter" /\ last.mode = "full"
    /\ ~last.ok /\ last.err = "IOError"
    /\ Len(dataArr) >= 1
    /\ attrs.user = None

\* C6 as stated: once the item type is fixed, an append of a value of the
\* other kind (a non-array into an "array" trajectory, an array into an
\* "object" trajectory) fails and is not stored.
C6_MismatchReported ==
    (/\ last.op = "append"
     /\ \/ attrs.item_type = "array" /\ last.data.kind # "array"
        \/ attrs.item_type = "object" /\ last.data.kind = "array")
    => ~last.ok

C8_FailedAppendKeepsPrior ==
    [][(last'.op = "append" /\ ~last'.ok)
       => (/\ Len(dataArr') >= Len(dataArr)
           /\ Len(timeArr') >= Len(timeArr)
           /\ \A k \in 1..Len(dataArr) : dataArr'[k] = dataArr[k]
           /\ \A k \in 1..Len(timeArr) : timeArr'[k] = timeArr[k])]_vars

\* a shape mismatch after two stored snapshots
C8_Witness ==
    /\ last.op = "append" /\ ~last.ok /\ last.err = "ValueError"
    /\ Len(dataArr) = 2 /\ Len(timeArr) = 2

\* a reader of an empty trajectory refuses index 0
C9_WitnessEmpty ==
    /\ last.op = "item_at" /\ last.idx = 0 /\ ~last.ok
    /\ rState = "open" /\ TrajectoryLen = 0

\* C9: for a trajectory of length n, item_at(i) with -n <= i < 0 returns what
\* item_at(i + n) returns; an index i >= n or i < -n raises IndexError, every
\* index when n = 0.
C9_NegativeIndex ==
    (last.op = "item_at" /\ rState = "open") =>
        LET n == TrajectoryLen
            i == last.idx
        IN
        /\ (i >= n \/ i < 0 - n) => (~last.ok /\ last.err = "IndexError")
        /\ (0 - n <= i /\ i < 0) =>
               /\ last.ok
               /\ GetItem(i + n).ok
               /\ last.val = GetItem(i + n).val
               /\ last.val = dataArr[i + n + 1]
        /\ (0 <= i /\ i < n) => (last.ok /\ last.val = dataArr[i + 1])

\* item_at(-1) on a trajectory of length 3 whose last item differs from the first
C9_Witness ==
    /\ last.op = "item_at" /\ last.idx = -1 /\ last.ok
    /\ TrajectoryLen = 3
    /\ last.val = dataArr[3]
    /\ dataArr[3] # dataArr[1]

\* C10: a generator of the reader yields the items at 0, 1, ... in ascending
\* order, length() of them when exhausted, and every new generator starts at
\* index 0 again.
C10_Iteration ==
    (rState = "open" /\ itState # "none") =>
        /\ itPos <= TrajectoryLen
        /\ Len(yielded) = itPos
        /\ \A k \in 1..Len(yielded) : yielded[k] = dataArr[k]
        /\ itState = "done" => Len(yielded) = TrajectoryLen
        /\ last.op = "iter" => itPos = 0

\* a second iteration of the same reader has yielded all three items
C10_Witness ==
    /\ rState = "open" /\ itState = "done" /\ itRestarted
    /\ Len(yielded) = 3
    /\ yielded[1] # yielded[2]

\* C11: when a TrajectoryWriter is used in a with-block, the storage handle
\* is closed when the block is left, after a body that ran to its end and
\* after a body that raised, and the exception of the body reaches the caller.
C11_ScopedClose ==
    [][(scope # "none" /\ scope' = "none")
       => (/\ storage' = "closed"
           /\ wState' = "closed"
           /\ scope = "body" => last'.ok
           /\ scope = "raised" =>
                  (~last'.ok /\ last.err # "" /\ last'.err = last.err))]_vars

\* a with-block left by the ValueError of its second append
C11_Witness ==
    /\ last.op = "with" /\ ~last.ok /\ last.err = "ValueError"
    /\ storage = "closed"
    /\ Len(dataArr) = 1

\* C12 as stated: after a constructor of TrajectoryWriter or Trajectory has
\* failed, the storage handle it opened is not open any more.
C12_HandleReleased ==
    (last.op \in {"TrajectoryWriter", "Trajectory"} /\ ~last.ok)
        => storage # "open"

RECURSIVE SameShape(_, _)
SameShape(a, b) ==
    /\ a.kind = b.kind
    /\ a.kind = "DictState" =>
           /\ DictKeys(a.val) = DictKeys(b.val)
           /\ \A i \in 1..Len(a.val.val) :
                  SameShape(a.val.val[i][2], b.val.val[i][2])

C14_Equality ==
    res.op = "eq" =>
        (res.flag <=>
            /\ obj.kind = res.other.kind
            /\ AttributesStore(obj) = AttributesStore(res.other)
            /\ Equals(DataStore(obj), DataStore(res.other)))

C16_TagMismatch ==
    /\ (res.op = "from_state" /\ res.cls = "StateBase" /\ res.ok)
        => res.val.kind = res.attrs.cls
    /\ (/\ res.op = "from_state" /\ res.cls \in Registry
         /\ AttrHas(res.attrs, "__class__")
         /\ res.attrs.cls \in Registry /\ res.attrs.cls # res.cls)
        => ~res.ok

\* C17 as stated: a state stored under another format version loads with a
\* warning about the version, and from_state warns whenever it rebuilds a
\* state from attributes whose version is not the current one or is absent.
C17_VersionWarning ==
    /\ (res.op = "from_zarr" /\ AttrHas(res.attrs, "__version__"))
        => (res.ok /\ "version" \in res.warned)
    /\ (res.op = "from_state" /\ res.ok /\ VersionOf(res.attrs) # FormatVersion)
        => "version" \in res.warned

\* len(data) == len(labels) == len(set(labels)) in every ArrayCollectionState
\* of a value, nested ones included
RECURSIVE LabelsOk(_)
LabelsOk(s) ==
    IF s.kind = "ArrayCollectionState"
    THEN /\ Len(s.val.val) = Len(s.labels)
         /\ Len(s.labels) = Cardinality({s.labels[i] : i \in 1..Len(s.labels)})
    ELSE IF s.kind = "DictState"
    THEN \A i \in 1..Len(s.val.val) : LabelsOk(s.val.val[i][2])
    ELSE TRUE

\* C18: the constructor of ArrayCollectionState fails for labels with a
\* duplicate and for a number of labels other than the number of arrays;
\* every ArrayCollectionState that a constructor, from_state or a read
\* returns has as many labels as arrays and no label twice.
C18_LabelInvariant ==
    /\ (res.op = "ArrayCollectionState" /\ res.other # PyNone)
        => LET ls == res.other.val
               n == IF res.data = PyNone THEN 0 ELSE Len(res.data.val)
           IN (\/ Len(ls) # n
               \/ \E i, j \in 1..Len(ls) : i # j /\ ls[i] = ls[j])
              => ~res.ok
    /\ LabelsOk(obj)
    /\ LabelsOk(res.val)

\* two arrays with the labels ["a", "a"] are refused
C18_Witness ==
    /\ res.op = "ArrayCollectionState" /\ ~res.ok
    /\ res.other = PyList(<<"a", "a">>)
    /\ Len(res.data.val) = 2

\* C19 as stated: the key list in the attributes of a DictState is the list
\* of the keys of its data, and DictState.from_state fails when the key list
\* of the attributes does not match the data (another key set for a dict,
\* another length for a sequence).
C19_KeyMismatch ==
    /\ obj.kind = "DictState" => Attributes(obj).keys.val = DictKeys(obj.val)
    /\ (/\ res.op = "from_state" /\ res.cls = "DictState"
         /\ AttrHas(res.attrs, "__keys__")
         /\ res.data # PyNone
         /\ IF res.data.kind = "dict"
            THEN {res.attrs.keys.val[i] : i \in 1..Len(res.attrs.keys.val)}
                     # DictKeySet(res.data)
            ELSE Len(res.attrs.keys.val) # Len(res.data.val))
        => ~res.ok

\* the names a dict of parameters holds, and the declared parameters of the
\* class of the latest call: every parameter of its hierarchy, the deprecated
\* ones if the call includes them
ParamNames(params) == {params[i][1] : i \in 1..Len(params)}
DeclaredOf(cls, include_deprecated) ==
    get_parameters(cls, pres.before, TRUE, include_deprecated, TRUE).params

\* a value that the declared type accepts; an untyped parameter (cls=object)
\* accepts every value
Acceptable(id, v) ==
    \/ v = PyNone
    \/ ParameterObjects[id].cls \in {"object", "str"}
    \/ ParameterObjects[id].cls = "int" /\ ToInt(v).ok

\* the value a declared parameter is to get: None stays, a typed parameter
\* gets the converted value, an untyped one the value itself (a number where
\* the value reads as a number)
Expected(id, v) ==
    IF v = PyNone THEN v
    ELSE IF ParameterObjects[id].cls = "int" THEN ToInt(v).val
    ELSE IF ParameterObjects[id].cls = "str" THEN ToStr(v).val
    ELSE IF auto_type(v).ok THEN auto_type(v).val
    ELSE v

\* C21: a constructor call cls(parameters, strict=...) never changes the
\* caller's dict.  With strict=True an undeclared key raises ValueError, and a
\* dict of declared keys with values that the declared types accept gives an
\* object whose every declared parameter holds the supplied value, or the
\* default, converted to the declared type.  With strict=False the undeclared
\* keys are stored unchanged.
C21_ParameterParsing ==
    pres.op = "Parameterized" =>
        LET declared == DeclaredOf(pres.cls, TRUE)
            given == IF pres.parameters = PyNone THEN PyDict(<<>>) ELSE pres.parameters
            undeclared == DictKeySet(given) \ ParamNames(declared)
            value(i) == IF declared[i][1] \in DictKeySet(given)
                        THEN DictGet(given, declared[i][1])
                        ELSE ParameterObjects[declared[i][2]].default_value
        IN  /\ pres.caller = pres.parameters
            /\ pres.strict /\ undeclared # {} => ~pres.ok /\ pres.err = "ValueError"
            /\ pres.strict /\ undeclared = {}
                 /\ (\A i \in 1..Len(declared) : Acceptable(declared[i][2], value(i)))
                 => /\ pres.ok
                    /\ DictKeySet(pres.val) = ParamNames(declared)
                    /\ \A i \in 1..Len(declared) :
                           DictGet(pres.val, declared[i][1])
                               = Expected(declared[i][2], value(i))
            /\ ~pres.strict /\ pres.ok =>
                   \A k \in undeclared : /\ k \in DictKeySet(pres.val)
                                         /\ DictGet(pres.val, k) = DictGet(given, k)

\* the parts of C21 that do not depend on the conversion of untyped values
C21_Rest ==
    pres.op = "Parameterized" =>
        LET declared == DeclaredOf(pres.cls, TRUE)
            given == IF pres.parameters = PyNone THEN PyDict(<<>>) ELSE pres.parameters
            undeclared == DictKeySet(given) \ ParamNames(declared)
            value(i) == IF declared[i][1] \in DictKeySet(given)
                        THEN DictGet(given, declared[i][1])
                        ELSE ParameterObjects[declared[i][2]].default_value
        IN  /\ pres.caller = pres.parameters
            /\ pres.strict /\ undeclared # {} => ~pres.ok /\ pres.err = "ValueError"
            /\ pres.strict /\ pres.ok
                 => /\ DictKeySet(pres.val) = ParamNames(declared)
                    /\ \A i \in 1..Len(declared) :
                           DictGet(pres.val, declared[i][1])
                               = Expected(declared[i][2], value(i))
            /\ ~pres.strict /\ pres.ok =>
                   \A k \in undeclared : /\ k \in DictKeySet(pres.val)
                                         /\ DictGet(pres.val, k) = DictGet(given, k)

\* the declarations a class inherits and makes, from the base to the class
RECURSIVE Declarations(_, _)
Declarations(mro, i) ==
    IF i > Len(mro) THEN <<>>
    ELSE parameters_default(mro[i]) \o Declarations(mro, i + 1)

\* what the declarations of a class say about a name: the Parameter object
\* that stands for it (0 if none), and whether a HideParameter hides it
Standing(cls, name) ==
    LET d == Declarations(ReversedMro(cls), 1)
        at == {i \in 1..Len(d) : d[i].name = name}
        final == CHOOSE i \in at : \A j \in at : j <= i
        objs == {i \in at : d[i].kind # "HideParameter"}
        lastObj == CHOOSE i \in objs : \A j \in objs : j <= i
    IN  IF objs = {} THEN [id |-> 0, hide |-> FALSE]
        ELSE [id |-> d[lastObj].id, hide |-> d[final].kind = "HideParameter"]

\* C22: get_parameters returns, for every name declared in the hierarchy of
\* the class, the Parameter object of the most derived declaration; a name
\* that a HideParameter of the hierarchy hides is left out without
\* include_hidden and is returned, marked hidden, with include_hidden; a
\* parameter declared hidden is returned only with include_hidden and a
\* DeprecatedParameter only with include_deprecated.
C22_GetParameters ==
    pres.op = "get_parameters" =>
        /\ pres.ok
        /\ \A name \in {SortedNames[i] : i \in DOMAIN SortedNames} :
               LET s == Standing(pres.cls, name)
                   p == ParameterObjects[s.id]
                   wanted ==
                       /\ s.id # 0
                       /\ pres.include_hidden \/ ~(s.hide \/ p.hidden)
                       /\ pres.include_deprecated \/ p.kind # "DeprecatedParameter"
               IN  /\ HasName(pres.val.val, name) <=> wanted
                   /\ wanted => IdOf(pres.val.val, name) = s.id
                   /\ wanted /\ s.hide => hidden[s.id]

\* what a class reports for given flags: the names, the Parameter objects and
\* their hidden attributes
Report(cls, hid, include_hidden, include_deprecated, sort) ==
    LET r == get_parameters(cls, hid, include_hidden, include_deprecated, sort)
    IN  [i \in 1..Len(r.params) |->
            <<r.params[i][1], r.params[i][2], r.hidden[r.params[i][2]]>>]

\* C28: after a call on any class, the parent class Base reports, for every
\* choice of flags, what it reported before the call.
C28_ParentUnchanged ==
    \A include_hidden \in BOOLEAN, include_deprecated \in BOOLEAN, sort \in BOOLEAN :
        Report("Base", hidden, include_hidden, include_deprecated, sort)
            = Report("Base", pres.before, include_hidden, include_deprecated, sort)

\* C23: when the output of submit_job is an existing file (and the template
\* and the parameters are usable), "error" raises, submits nothing and keeps
\* the file; "warn_skip" and "silent_skip" return, submit nothing and keep the
\* file; "overwrite" and "silent_overwrite" delete the file and, for a known
\* method, submit the job; any other strategy raises, keeps the file and
\* submits nothing.
C23_OverwriteStrategy ==
    (/\ jres.op = "submit_job"
     /\ jres.output \in jres.before
     /\ TemplateFound(jres.template, jres.method)
     /\ JobParameters(jres.parameters).ok)
    => LET s == jres.overwrite_strategy
       IN  /\ s = "error" =>
                 ~jres.ok /\ jres.jobs = <<>> /\ jres.output \in jres.after
           /\ s \in {"warn_skip", "silent_skip"} =>
                 jres.ok /\ jres.jobs = <<>> /\ jres.output \in jres.after
           /\ s \in {"overwrite", "silent_overwrite"} =>
                 /\ jres.output \notin jres.after
                 /\ jres.method \in SubmitMethods =>
                        /\ jres.ok
                        /\ Len(jres.jobs) = 1
                        /\ jres.jobs[1].output = jres.output
           /\ s \notin OverwriteStrategies =>
                 ~jres.ok /\ jres.jobs = <<>> /\ jres.output \in jres.after

\* C23 witness: an existing output file was deleted and the job submitted
C23_Witness ==
    /\ jres.op = "submit_job"
    /\ jres.output \in jres.before
    /\ jres.overwrite_strategy = "overwrite"
    /\ jres.ok
    /\ Len(jres.jobs) = 1
    /\ jres.output \notin jres.after

\* the dict that submit_jobs was given, its varying items and the
\* combinations of their values
GivenDict ==
    IF jres.parameters = PyNone THEN PyDict(<<>>) ELSE PyDict(jres.parameters.val)
ListParams ==
    IF jres.list_params = PyNone THEN {}
    ELSE {jres.list_params.val[i] : i \in 1..Len(jres.list_params.val)}
VaryingNames ==
    {n \in DictKeySet(GivenDict) : DictGet(GivenDict, n).kind = "list" /\ n \notin ListParams}
Choices ==
    {f \in [VaryingNames -> {PyInt(1), PyInt(2), PyInt(3)}] :
        \A n \in VaryingNames :
            \E i \in 1..Len(DictGet(GivenDict, n).val) : DictGet(GivenDict, n).val[i] = f[n]}

\* C24: a submit_jobs call that returns has submitted exactly one job for
\* every combination of values of the varying parameters, every job got the
\* other parameters unchanged, and the number returned is the number of jobs
\* submitted.
C24_SubmitJobs ==
    jres.op = "submit_jobs" /\ jres.ok =>
        /\ \A f \in Choices :
               Cardinality({i \in 1..Len(jres.jobs) :
                   \A n \in VaryingNames :
                       /\ n \in DictKeySet(jres.jobs[i].parameters)
                       /\ DictGet(jres.jobs[i].parameters, n) = f[n]}) = 1
        /\ Len(jres.jobs) = Cardinality(Choices)
        /\ \A i \in 1..Len(jres.jobs) :
               \A n \in DictKeySet(GivenDict) \ VaryingNames :
                   /\ n \in DictKeySet(jres.jobs[i].parameters)
                   /\ DictGet(jres.jobs[i].parameters, n) = DictGet(GivenDict, n)
        /\ jres.count = Len(jres.jobs)

\* every array below `after` holds exactly one item more than the array at
\* the same place below `before`
RECURSIVE Grown(_, _)
Grown(before, after) ==
    /\ after.kind = before.kind
    /\ IF before.kind = "array"
       THEN Len(after.items) = Len(before.items) + 1
       ELSE /\ Len(after.children) = Len(before.children)
            /\ \A i \in 1..Len(before.children) :
                   /\ after.children[i][1] = before.children[i][1]
                   /\ Grown(before.children[i][2], after.children[i][2])

\* C25: for every variant, the storage prepared for a trajectory holds arrays
\* of length zero only, every append that returns grows every array by exactly
\* one, and after k appends the read at index i (0 <= i < k) returns the i-th
\* appended snapshot.
C25_TrajectoryCodec ==
    /\ tres.op = "prepare" => LeafLengths(traj) \subseteq {0}
    /\ (tres.op = "append" /\ tres.ok) => Grown(tres.before, traj)
    /\ (tres.op = "read" /\ tres.arg.val < Len(snaps)) =>
           /\ tres.ok
           /\ tres.val = snaps[tres.arg.val + 1]

\* C27: after any sequence of appends to the trajectory of a DictState or of
\* an ArrayCollectionState, failing ones included, all arrays of the
\* composite have the same length.
C27_AllOrNothing ==
    traj.kind = "group" => Cardinality(LeafLengths(traj)) <= 1

\* C29: copy() of a valid state of any variant returns a state of the same
\* variant that is equal to the state.
C29_Copy ==
    res.op = "copy" =>
        /\ res.ok
        /\ res.val.kind = obj.kind
        /\ StateEq(obj, res.val)

\* C26: in every state that operations of a TrajectoryWriter reach, appends
\* that fail and writers reopened in append mode included, the stored data
\* array and the stored time array have the same length, and the attribute
\* item_type is present whenever the data array exists.
C26_ArraysInStep ==
    /\ Len(dataArr) = Len(timeArr)
    /\ hasData => attrs.item_type # None

\* an append was refused while the trajectory holds snapshots
C26_Witness ==
    /\ last.op = "append"
    /\ ~last.ok
    /\ hasData
    /\ Len(dataArr) >= 1

====
